---- MODULE Spec2Model ----
(***************************************************************************)
(* A state-machine model of svg-reveal.js (pukekohetech/svgboard): the     *)
(* whiteboard's document state, its pointer-gesture machine, the undo/redo *)
(* history, board persistence and the SVG exporter.                        *)
(*                                                                         *)
(* Numbers.  The program computes in IEEE doubles.  The model computes in  *)
(* fixed point: world and screen coordinates are integers (one unit = one  *)
(* CSS pixel at zoom 1), the zoom and scale factors are in thousandths     *)
(* (FX), angles are whole degrees (the program uses radians) and sines are *)
(* in units of 1/TRIG.  Every quotient is rounded to the nearest unit.     *)
(***************************************************************************)
EXTENDS Integers, Sequences, FiniteSets, TLC

\* ------------------------------------------------------------------------
\* Bounds of the model (not program constants)
\* ------------------------------------------------------------------------
\* operations that call pushUndo (or start a pan) in one behaviour
MaxOps == 1
\* points a stroke/erase gesture may collect
MaxPts == 2
\* objects of an exported document
MaxObjs == 3

\* ------------------------------------------------------------------------
\* Program constants
\* ------------------------------------------------------------------------
UndoLimit == 120
\* fixed-point units of the model
FX == 1000
TRIG == 100000

\* ------------------------------------------------------------------------
\* Arithmetic helpers
\* ------------------------------------------------------------------------
Abs(a) == IF a < 0 THEN -a ELSE a
Min2(a, b) == IF a < b THEN a ELSE b
Max2(a, b) == IF a > b THEN a ELSE b
clamp(v, a, b) == Max2(a, Min2(b, v))

\* a / b rounded to the nearest integer (halves up), b # 0
RDiv(a, b) ==
  IF b > 0 THEN (2 * a + b) \div (2 * b)
  ELSE ((-2) * a - b) \div ((-2) * b)

\* Math.round(a / b) for b > 0 : floor(a/b + 1/2)
MathRound(a, b) == (2 * a + b) \div (2 * b)

RECURSIVE ISqrtIn(_, _, _)
\* the r in lo..hi with r*r <= n < (r+1)*(r+1), by bisection
ISqrtIn(n, lo, hi) ==
  IF lo >= hi THEN lo
  ELSE LET mid == (lo + hi + 1) \div 2 IN
         IF mid * mid <= n THEN ISqrtIn(n, mid, hi) ELSE ISqrtIn(n, lo, mid - 1)
\* floor of the square root (n below 2^30)
ISqrt(n) == IF n <= 0 THEN 0 ELSE ISqrtIn(n, 0, 32767)
\* Math.hypot(x, y) in units of 1/10 (so that short vectors keep precision)
Hypot10(x, y) == ISqrt(100 * (x * x + y * y))

SinTab ==
  << 0, 1745, 3490, 5234, 6976, 8716, 10453, 12187, 13917, 15643,
     17365, 19081, 20791, 22495, 24192, 25882, 27564, 29237, 30902,
     32557, 34202, 35837, 37461, 39073, 40674, 42262, 43837, 45399,
     46947, 48481, 50000, 51504, 52992, 54464, 55919, 57358, 58779,
     60182, 61566, 62932, 64279, 65606, 66913, 68200, 69466, 70711,
     71934, 73135, 74314, 75471, 76604, 77715, 78801, 79864, 80902,
     81915, 82904, 83867, 84805, 85717, 86603, 87462, 88295, 89101,
     89879, 90631, 91355, 92050, 92718, 93358, 93969, 94552, 95106,
     95630, 96126, 96593, 97030, 97437, 97815, 98163, 98481, 98769,
     99027, 99255, 99452, 99619, 99756, 99863, 99939, 99985, 100000 >>

NormDeg(d) == d % 360
\* Math.sin / Math.cos of an angle in whole degrees, in units of 1/TRIG
Sin(d) ==
  LET Quadrant(a) ==
        (IF a <= 180 THEN 1 ELSE -1)
          * SinTab[(IF a <= 90 THEN a
                    ELSE IF a <= 180 THEN 180 - a
                    ELSE IF a <= 270 THEN a - 180
                    ELSE 360 - a) + 1]
  IN Quadrant(NormDeg(d))
Cos(d) == Sin(d + 90)

\* angle of (x, y), x >= 0, y >= 0, not both 0, to the nearest degree in 0..90
RefAngle(y, x) ==
  LET cross == [k \in 0..91 |-> y * Sin(90 - k) - x * Sin(k)]
      Nearest(lo) ==
        IF lo = 90 THEN 90
        ELSE IF cross[lo] <= -cross[lo + 1] THEN lo ELSE lo + 1
  IN Nearest(CHOOSE k \in 0..90 :
               /\ cross[k] >= 0
               /\ (k = 90 \/ cross[k + 1] < 0))

\* Math.atan2(y, x) in whole degrees, in -180..180 ; atan2(0, 0) = 0
Atan2(y, x) ==
  IF x = 0 /\ y = 0 THEN 0
  ELSE LET Signed(r) ==
             IF x >= 0 /\ y >= 0 THEN r
             ELSE IF x < 0 /\ y >= 0 THEN 180 - r
             ELSE IF x < 0 /\ y < 0 THEN r - 180
             ELSE -r
       IN Signed(RefAngle(Abs(y), Abs(x)))

Last(s) == s[Len(s)]
Front(s) == SubSeq(s, 1, Len(s) - 1)
Tail1(s) == SubSeq(s, 2, Len(s))
\* a removal that leaves a hole where the element was
Splice1Hole(s, i) == [s EXCEPT ![i + 1] = [nil |-> TRUE]]
\* Array.prototype.splice(i, 1) on a 0-based index i
Splice1(s, i) == SubSeq(s, 1, i) \o SubSeq(s, i + 2, Len(s))

\* ------------------------------------------------------------------------
\* Object model: metrics, bounds, hit test, move / scale / rotate
\* ------------------------------------------------------------------------
Pt(px, py) == [x |-> px, y |-> py]

OwnRotKinds == {"rect", "circle", "text"}
PointKinds == {"stroke", "erase"}

\* obj.rot || 0
RotOf(obj) == IF "rot" \in DOMAIN obj THEN obj.rot ELSE 0

\* measureText(text).width of the canvas: 0.6 em per character
MeasureWidth(text, fontSize) == RDiv(Len(text) * fontSize * 6, 10)

textMetrics(obj) ==
  LET fontSize == IF obj.fontSize = 0 THEN 20 ELSE obj.fontSize IN
    [w |-> MeasureWidth(obj.text, fontSize),
     h |-> RDiv(fontSize * 125, 100),
     fontSize |-> fontSize]

\* p rotated by ang degrees about the origin, then shifted by (cx, cy);
\* p is given in half units (p2x = 2 * p.x)
\* (c, s) are the cosine and the sine of ang
RotHalf(p2x, p2y, cx, cy, c, s) ==
  Pt(cx + RDiv(p2x * c - p2y * s, 2 * TRIG),
     cy + RDiv(p2x * s + p2y * c, 2 * TRIG))

\* the four corners of a w x h box centred at (cx, cy), rotated by ang
RotCorners(w, h, cx, cy, ang) ==
  LET Corners(c, s) ==
        [i \in 1..4 |->
           RotHalf(IF i \in {1, 4} THEN -w ELSE w, IF i \in {1, 2} THEN -h ELSE h,
                   cx, cy, c, s)]
  IN Corners(Cos(ang), Sin(ang))

SeqMin(f, n) == CHOOSE m \in {f[i] : i \in 1..n} : \A i \in 1..n : m <= f[i]
SeqMax(f, n) == CHOOSE m \in {f[i] : i \in 1..n} : \A i \in 1..n : m >= f[i]

AABB(ps, pad) ==
  LET Box(xs, ys, n) ==
        [minX |-> SeqMin(xs, n) - pad, minY |-> SeqMin(ys, n) - pad,
         maxX |-> SeqMax(xs, n) + pad, maxY |-> SeqMax(ys, n) + pad]
  IN Box([i \in 1..Len(ps) |-> ps[i].x], [i \in 1..Len(ps) |-> ps[i].y], Len(ps))

\* cos and sin of i/16 of a turn, i in 0..15, in units of 1/TRIG
Cos16 == << 100000, 92388, 70711, 38268, 0, -38268, -70711, -92388,
            -100000, -92388, -70711, -38268, 0, 38268, 70711, 92388 >>
Sin16 == << 0, 38268, 70711, 92388, 100000, 92388, 70711, 38268,
            0, -38268, -70711, -92388, -100000, -92388, -70711, -38268 >>

\* the sample point i of a w x h ellipse centred at (cx, cy) and turned by
\* the angle of cosine c and sine s; (ex10, ey10) is the unrotated point in tenths
EllipsePoint(i, w, h, cx, cy, c, s) ==
  LET Turned(ex10, ey10) ==
        Pt(cx + RDiv(ex10 * c - ey10 * s, 10 * TRIG),
           cy + RDiv(ex10 * s + ey10 * c, 10 * TRIG))
  IN Turned(RDiv(Cos16[i] * w, 2 * (TRIG \div 10)), RDiv(Sin16[i] * h, 2 * (TRIG \div 10)))

objectBounds(obj) ==
  IF obj.kind \in PointKinds THEN
    IF Len(obj.points) = 0 THEN [minX |-> 0, minY |-> 0, maxX |-> 0, maxY |-> 0]
    ELSE AABB(obj.points, RDiv((IF obj.size = 0 THEN 6 ELSE obj.size) * 8, 10))
  ELSE IF obj.kind \notin OwnRotKinds THEN
    LET Padded(pad) ==
          [minX |-> Min2(obj.x1, obj.x2) - pad, minY |-> Min2(obj.y1, obj.y2) - pad,
           maxX |-> Max2(obj.x1, obj.x2) + pad, maxY |-> Max2(obj.y1, obj.y2) + pad]
    IN Padded(IF obj.size = 0 THEN 4 ELSE obj.size)
  ELSE
    \* text, rect and circle: a w x h box centred at (cx, cy), turned by obj.rot
    LET Turned(w, h, cx, cy, pad) ==
          AABB(IF obj.kind = "circle"
                 THEN LET Samples(c, s) ==
                            [i \in 1..16 |-> EllipsePoint(i, w, h, cx, cy, c, s)]
                      IN Samples(Cos(RotOf(obj)), Sin(RotOf(obj)))
                 ELSE RotCorners(w, h, cx, cy, RotOf(obj)),
               pad)
        OfText(m) == Turned(m.w, m.h, obj.x + RDiv(m.w, 2), obj.y + RDiv(m.h, 2), 0)
    IN IF obj.kind = "text" THEN OfText(textMetrics(obj))
       ELSE Turned(Abs(obj.x2 - obj.x1), Abs(obj.y2 - obj.y1),
                   RDiv(obj.x1 + obj.x2, 2), RDiv(obj.y1 + obj.y2, 2),
                   IF obj.size = 0 THEN 4 ELSE obj.size)

\* centre of the bounds, the anchor of selection transforms
BoundsCenter(obj) ==
  LET Centre(b) == Pt(RDiv(b.minX + b.maxX, 2), RDiv(b.minY + b.maxY, 2))
  IN Centre(objectBounds(obj))

\* the squared distance to the whole line through the two points: t is not
\* clamped to the segment
distToLineSq100(px, py, x1, y1, x2, y2) ==
  LET dx == x2 - x1
      dy == y2 - y1
  IN IF dx = 0 /\ dy = 0
       THEN 100 * ((px - x1) * (px - x1) + (py - y1) * (py - y1))
     ELSE LET t == RDiv(((px - x1) * dx + (py - y1) * dy) * FX, dx * dx + dy * dy)
              cx10 == 10 * x1 + RDiv(t * dx * 10, FX)
              cy10 == 10 * y1 + RDiv(t * dy * 10, FX)
          IN (10 * px - cx10) * (10 * px - cx10) + (10 * py - cy10) * (10 * py - cy10)

\* squared distance, in 1/100 units, from (px, py) to the segment
\* (x1, y1)-(x2, y2): the square of ten times distToSeg's result
distToSegSq100(px, py, x1, y1, x2, y2) ==
  LET dx == x2 - x1
      dy == y2 - y1
  IN IF dx = 0 /\ dy = 0
       THEN 100 * ((px - x1) * (px - x1) + (py - y1) * (py - y1))
     ELSE LET t == RDiv(((px - x1) * dx + (py - y1) * dy) * FX, dx * dx + dy * dy)
              tt == clamp(t, 0, FX)
              cx10 == 10 * x1 + RDiv(tt * dx * 10, FX)
              cy10 == 10 * y1 + RDiv(tt * dy * 10, FX)
          IN (10 * px - cx10) * (10 * px - cx10) + (10 * py - cy10) * (10 * py - cy10)

\* (wx, wy) taken into the frame of a box centred at (cx, cy) rotated by ang
ToLocal(wx, wy, cx, cy, ang) ==
  LET Turn(c, s) == Pt(RDiv((wx - cx) * c - (wy - cy) * s, TRIG),
                       RDiv((wx - cx) * s + (wy - cy) * c, TRIG))
  IN Turn(Cos(-ang), Sin(-ang))

hitObject(obj, wx, wy) ==
  LET size == IF obj.kind # "text" /\ obj.size # 0 THEN obj.size ELSE 4
      \* tol = max(8, size * 1.5), doubled
      tol2 == Max2(16, size * 3)
  IN
  IF obj.kind = "text" THEN
    LET b == objectBounds(obj) IN
      wx >= b.minX /\ wx <= b.maxX /\ wy >= b.minY /\ wy <= b.maxY
  ELSE IF obj.kind \in PointKinds THEN
    \E i \in 2..Len(obj.points) :
       4 * distToSegSq100(wx, wy, obj.points[i-1].x, obj.points[i-1].y,
                          obj.points[i].x, obj.points[i].y) <= 100 * tol2 * tol2
  ELSE IF obj.kind \in {"line", "arrow"} THEN
    4 * distToSegSq100(wx, wy, obj.x1, obj.y1, obj.x2, obj.y2) <= 100 * tol2 * tol2
  ELSE IF obj.kind = "rect" THEN
    LET l == ToLocal(wx, wy, RDiv(obj.x1 + obj.x2, 2), RDiv(obj.y1 + obj.y2, 2), RotOf(obj))
    IN 2 * Abs(l.x) <= Abs(obj.x2 - obj.x1) /\ 2 * Abs(l.y) <= Abs(obj.y2 - obj.y1)
  ELSE IF obj.kind = "circle" THEN
    LET w == Abs(obj.x2 - obj.x1)
        h == Abs(obj.y2 - obj.y1)
        l == ToLocal(wx, wy, RDiv(obj.x1 + obj.x2, 2), RDiv(obj.y1 + obj.y2, 2), RotOf(obj))
        \* nx = lx / rx, ny = ly / ry in units of 1/FX
        nx == RDiv(2 * l.x * FX, w)
        ny == RDiv(2 * l.y * FX, h)
    IN IF w < 2 \/ h < 2 THEN FALSE
       ELSE nx * nx + ny * ny <= 12 * (FX \div 10) * FX
  ELSE FALSE

moveObject(obj, dx, dy) ==
  IF obj.kind = "text" THEN [obj EXCEPT !.x = @ + dx, !.y = @ + dy]
  ELSE IF obj.kind \in PointKinds THEN
    [obj EXCEPT !.points = [i \in 1..Len(@) |-> Pt(@[i].x + dx, @[i].y + dy)]]
  ELSE [obj EXCEPT !.x1 = @ + dx, !.y1 = @ + dy, !.x2 = @ + dx, !.y2 = @ + dy]

\* a + (p - a) * f, f in units of 1/FX
ScaleAbout(p, a, f) == a + RDiv((p - a) * f, FX)

\* a scaling of a shape about the origin, whatever the anchor is
scaleObjectXYOrigin(obj, fx0, fy0, ax, ay) ==
  IF obj.kind \in {"text"} \cup PointKinds THEN obj
  ELSE [obj EXCEPT !.x1 = ScaleAbout(@, 0, fx0), !.y1 = ScaleAbout(@, 0, fy0),
                   !.x2 = ScaleAbout(@, 0, fx0), !.y2 = ScaleAbout(@, 0, fy0)]

\* fx, fy in units of 1/FX (isFinite holds of every model value)
scaleObjectXY(obj, fx0, fy0, ax, ay) ==
  LET fx == clamp(fx0, -20 * FX, 20 * FX)
      fy == clamp(fy0, -20 * FX, 20 * FX)
  IN
  IF obj.kind = "text" THEN
    LET uni == Max2(2 * (FX \div 10), RDiv(Abs(fx) + Abs(fy), 2)) IN
      [obj EXCEPT !.x = ScaleAbout(@, ax, fx), !.y = ScaleAbout(@, ay, fy),
                  !.fontSize = Max2(6, RDiv(@ * uni, FX))]
  ELSE IF obj.kind \in PointKinds THEN
    [obj EXCEPT !.points = [i \in 1..Len(@) |->
                              Pt(ScaleAbout(@[i].x, ax, fx), ScaleAbout(@[i].y, ay, fy))]]
  ELSE [obj EXCEPT !.x1 = ScaleAbout(@, ax, fx), !.y1 = ScaleAbout(@, ay, fy),
                   !.x2 = ScaleAbout(@, ax, fx), !.y2 = ScaleAbout(@, ay, fy)]

rotatePoint(px, py, cx, cy, angle) ==
  LET Turn(c, s) == Pt(cx + RDiv((px - cx) * c - (py - cy) * s, TRIG),
                       cy + RDiv((px - cx) * s + (py - cy) * c, TRIG))
  IN Turn(Cos(angle), Sin(angle))

\* a rotateObject that turns the stored coordinates of every kind of object
\* about the centre of its bounds, and stores no angle
rotateObjectPoints(obj, angle) ==
  LET c == BoundsCenter(obj) IN
    IF obj.kind \in PointKinds THEN
      [obj EXCEPT !.points =
         [i \in 1..Len(@) |-> rotatePoint(@[i].x, @[i].y, c.x, c.y, angle)]]
    ELSE IF obj.kind = "text" THEN
      [obj EXCEPT !.x = rotatePoint(obj.x, obj.y, c.x, c.y, angle).x,
                  !.y = rotatePoint(obj.x, obj.y, c.x, c.y, angle).y]
    ELSE [obj EXCEPT !.x1 = rotatePoint(obj.x1, obj.y1, c.x, c.y, angle).x,
                     !.y1 = rotatePoint(obj.x1, obj.y1, c.x, c.y, angle).y,
                     !.x2 = rotatePoint(obj.x2, obj.y2, c.x, c.y, angle).x,
                     !.y2 = rotatePoint(obj.x2, obj.y2, c.x, c.y, angle).y]

rotateObject(obj, angle) ==
  LET About(c) ==
        IF obj.kind \in PointKinds THEN
          [obj EXCEPT !.points =
             [i \in 1..Len(@) |-> rotatePoint(@[i].x, @[i].y, c.x, c.y, angle)]]
        ELSE LET Ends(p1, p2) ==
                   [obj EXCEPT !.x1 = p1.x, !.y1 = p1.y, !.x2 = p2.x, !.y2 = p2.y]
             IN Ends(rotatePoint(obj.x1, obj.y1, c.x, c.y, angle),
                     rotatePoint(obj.x2, obj.y2, c.x, c.y, angle))
  IN IF obj.kind \in OwnRotKinds THEN [obj EXCEPT !.rot = RotOf(obj) + angle]
     ELSE About(BoundsCenter(obj))

\* ------------------------------------------------------------------------
\* State
\* ------------------------------------------------------------------------
VARIABLES
  tool, color, size,        \* state.tool / color / size
  zoom, panX, panY,         \* camera; zoom in units of 1/FX
  title,                    \* state.title
  svg,                      \* state.svg : the overlay's stored state
  bg,                       \* state.bg
  objects,                  \* state.objects
  undo, redo,               \* state.undo / state.redo : stacks of JSON strings
  selectionIndex,           \* state.selectionIndex, 0-based, -1 = none
  uiHandles,                \* handle geometry cached by the last redraw
  gesture,                  \* the gesture object
  spacePanning,             \* the space-pan flag
  svgNodes,                 \* visibility of the revealable nodes in the DOM
  svgLayer,                 \* the overlay document attached to the DOM ("" = none)
  bgImgSrc,                 \* the src attribute of the background <img> ("" = none)
  boards,                   \* the persisted name -> board index (localStorage)
  exported,                 \* the last document exportSVG produced
  ev,                       \* history: the last event handled and its inputs
  ops,                      \* history: pushUndo-guarded operations so far
  hist                      \* history: the object lists around the last action

vars == << tool, color, size, zoom, panX, panY, title, svg, bg, objects, undo, redo,
           selectionIndex, uiHandles, gesture, spacePanning, svgNodes, svgLayer,
           bgImgSrc, boards, exported, ev, ops, hist >>

\* JavaScript null, where the other values of the field are records
Null == [nil |-> TRUE]

\* ------------------------------------------------------------------------
\* Camera
\* ------------------------------------------------------------------------
screenToWorld(sx, sy, z, px, py) == Pt(RDiv((sx - px) * FX, z), RDiv((sy - py) * FX, z))
worldToScreen(wx, wy, z, px, py) == Pt(RDiv(wx * z, FX) + px, RDiv(wy * z, FX) + py)

\* the limits of clamp(newZoom, 0.25, 6), in units of 1/FX
ZoomMin == 250
ZoomMax == 6000

\* a pan computed from the requested zoom, not from the clamped one
ZoomPanUnclamped(anchor, pan, old, newZoom) ==
  [num |-> anchor * old - (anchor - pan) * newZoom, den |-> old]

\* setZoomTo, one axis: anchor - ((anchor - pan) / old) * z with z the clamped
\* zoom, as the exact fraction num / den
ZoomPan(anchor, pan, old, newZoom) ==
  LET z == clamp(newZoom, ZoomMin, ZoomMax)
  IN [num |-> anchor * old - (anchor - pan) * z, den |-> old]

\* the wheel handler's factor: 0.90 when Math.sign(deltaY) > 0, else 1.10
WheelStep(dir) == IF dir > 0 THEN 900 ELSE 1100
\* state.zoom * step
WheelRequest(z, dir) == RDiv(z * WheelStep(dir), FX)

\* ------------------------------------------------------------------------
\* Handle geometry
\* ------------------------------------------------------------------------
NoHandles == [visible |-> FALSE, box |-> Null, rotate |-> Null, corners |-> << >>, poly |-> << >>]

CornerNames == << "nw", "ne", "se", "sw" >>

\* computeHandles() on the given tool, selection, objects and camera
computeHandles(tl, sel, objs, z, px, py) ==
  IF tl # "select" \/ sel < 0 \/ sel >= Len(objs) THEN NoHandles
  ELSE
    LET \* the handles of an object with a rotation of its own, from the
        \* screen corners of its turned box
        OfCorners(cornersS) ==
          LET \* topMid + n * 28 with n = (-edge.y, edge.x) / elen
              Knob(edgeX, edgeY, elen10) ==
                [x |-> RDiv(cornersS[1].x + cornersS[2].x, 2) + RDiv(-edgeY * 280, elen10),
                 y |-> RDiv(cornersS[1].y + cornersS[2].y, 2) + RDiv(edgeX * 280, elen10),
                 r |-> 7]
              Edge(edgeX, edgeY, len10) ==
                Knob(edgeX, edgeY, IF len10 = 0 THEN 10 ELSE len10)
          IN [visible |-> TRUE, box |-> Null,
              rotate |-> Edge(cornersS[2].x - cornersS[1].x, cornersS[2].y - cornersS[1].y,
                              Hypot10(cornersS[2].x - cornersS[1].x,
                                      cornersS[2].y - cornersS[1].y)),
              corners |-> [i \in 1..4 |-> [name |-> CornerNames[i], x |-> cornersS[i].x,
                                           y |-> cornersS[i].y, s |-> 10]],
              poly |-> cornersS]
        OfTurned(w, h, cx, cy, rot) ==
          LET ToScreen(cornersW) ==
                [i \in 1..4 |-> worldToScreen(cornersW[i].x, cornersW[i].y, z, px, py)]
          IN OfCorners(ToScreen(RotCorners(w, h, cx, cy, rot)))
        \* the handles of any other object, from its axis-aligned screen box
        OfBox(x, y, w, h) ==
          LET Corner(i) == Pt(IF i \in {1, 4} THEN x ELSE x + w,
                              IF i \in {1, 2} THEN y ELSE y + h)
          IN [visible |-> TRUE, box |-> [x |-> x, y |-> y, w |-> w, h |-> h],
              rotate |-> [x |-> x + RDiv(w, 2), y |-> y - 22, r |-> 7],
              corners |-> [i \in 1..4 |-> [name |-> CornerNames[i], x |-> Corner(i).x,
                                           y |-> Corner(i).y, s |-> 10]],
              poly |-> << >>]
        OfScreen(p1, p2) ==
          OfBox(Min2(p1.x, p2.x), Min2(p1.y, p2.y), Abs(p2.x - p1.x), Abs(p2.y - p1.y))
        Handles(obj, b) ==
          IF obj.kind \in OwnRotKinds /\ RotOf(obj) # 0 THEN
            LET OfSize(m) ==
                  OfTurned(m.w, m.h, RDiv(b.minX + b.maxX, 2), RDiv(b.minY + b.maxY, 2),
                           RotOf(obj))
            IN OfSize(IF obj.kind = "text" THEN textMetrics(obj)
                      ELSE [w |-> Abs(obj.x2 - obj.x1), h |-> Abs(obj.y2 - obj.y1)])
          ELSE OfScreen(worldToScreen(b.minX, b.minY, z, px, py),
                        worldToScreen(b.maxX, b.maxY, z, px, py))
    IN Handles(objs[sel + 1], objectBounds(objs[sel + 1]))

\* the crossing test of the point-in-polygon loop for the edge j -> i
EdgeCrosses(pi, pj, sx, sy) ==
  /\ (pi.y > sy) # (pj.y > sy)
  /\ IF pj.y - pi.y > 0
       THEN (sx - pi.x) * (pj.y - pi.y) < (pj.x - pi.x) * (sy - pi.y)
       ELSE (sx - pi.x) * (pj.y - pi.y) > (pj.x - pi.x) * (sy - pi.y)

\* hitHandle(sx, sy) on cached handles h : "rotate", "scale", "move" or "none"
hitHandle(h, sx, sy) ==
  IF ~h.visible THEN "none"
  ELSE IF h.rotate # Null
          /\ (sx - h.rotate.x) * (sx - h.rotate.x) + (sy - h.rotate.y) * (sy - h.rotate.y)
               <= (h.rotate.r + 6) * (h.rotate.r + 6)
    THEN "rotate"
  ELSE IF \E i \in 1..Len(h.corners) :
            LET c == h.corners[i] IN
              sx >= c.x - c.s /\ sx <= c.x + c.s /\ sy >= c.y - c.s /\ sy <= c.y + c.s
    THEN "scale"
  ELSE IF h.box # Null /\ sx >= h.box.x /\ sx <= h.box.x + h.box.w
                      /\ sy >= h.box.y /\ sy <= h.box.y + h.box.h
    THEN "move"
  ELSE IF Len(h.poly) > 0
          /\ Cardinality({i \in 1..Len(h.poly) :
                 EdgeCrosses(h.poly[i], h.poly[IF i = 1 THEN Len(h.poly) ELSE i - 1], sx, sy)}) % 2 = 1
    THEN "move"
  ELSE "none"

RECURSIVE findHitFrom(_, _, _, _)
\* the loop of findHit from 0-based index i downwards
findHitFrom(objs, i, wx, wy) ==
  IF i < 0 THEN -1
  ELSE IF hitObject(objs[i + 1], wx, wy) THEN i
  ELSE findHitFrom(objs, i - 1, wx, wy)

\* a variant of findHit that looks from the first object upwards
findHitLowest(objs, wx, wy) ==
  IF \E i \in 1..Len(objs) : hitObject(objs[i], wx, wy)
    THEN (CHOOSE i \in 1..Len(objs) :
            /\ hitObject(objs[i], wx, wy)
            /\ \A j \in 1..(i - 1) : ~hitObject(objs[j], wx, wy)) - 1
    ELSE -1

\* findHit(wx, wy) : 0-based index, or -1
findHit(objs, wx, wy) == findHitFrom(objs, Len(objs) - 1, wx, wy)

\* ------------------------------------------------------------------------
\* Undo / redo
\* ------------------------------------------------------------------------
DefaultSvg == [src |-> "", x |-> 0, y |-> 0, scale |-> FX, rot |-> 0,
               viewBox |-> "", step |-> -1, total |-> 0]
DefaultBg == [src |-> "", natW |-> 0, natH |-> 0, x |-> 0, y |-> 0, scale |-> FX, rot |-> 0]

\* JSON.stringify / JSON.parse: a string that holds a copy of the value.
\* Every value of the model (finite numbers, strings, arrays, plain objects
\* without undefined fields) survives the round trip.
JSONstringify(v) == [json |-> v]
JSONparse(str) == str.json
deepClone(obj) == JSONparse(JSONstringify(obj))

\* a snapshot() that leaves the objects out
snapshotNoObjects ==
  [tool |-> tool, color |-> color, size |-> size,
   zoom |-> zoom, panX |-> panX, panY |-> panY,
   title |-> title, bg |-> bg]

\* snapshot(): the fields it copies from the live state
snapshot ==
  [tool |-> tool, color |-> color, size |-> size,
   zoom |-> zoom, panX |-> panX, panY |-> panY,
   title |-> title, bg |-> bg, objects |-> deepClone(objects)]

\* the document a snapshot restores, field by field (x || default)
SnapTool(snap) == IF "tool" \in DOMAIN snap /\ snap.tool # "" THEN snap.tool ELSE "pen"
SnapColor(snap) == IF "color" \in DOMAIN snap /\ snap.color # "" THEN snap.color ELSE "#111111"
SnapSize(snap) == IF "size" \in DOMAIN snap /\ snap.size # 0 THEN snap.size ELSE 5
SnapZoom(snap) == IF "zoom" \in DOMAIN snap /\ snap.zoom # 0 THEN snap.zoom ELSE FX
SnapPanX(snap) == IF "panX" \in DOMAIN snap THEN snap.panX ELSE 0
SnapPanY(snap) == IF "panY" \in DOMAIN snap THEN snap.panY ELSE 0
SnapTitle(snap) == IF "title" \in DOMAIN snap THEN snap.title ELSE ""
SnapSvg(snap) == IF "svg" \in DOMAIN snap THEN snap.svg ELSE DefaultSvg
SnapBg(snap) == IF "bg" \in DOMAIN snap THEN snap.bg ELSE DefaultBg
SnapObjects(snap) == IF "objects" \in DOMAIN snap THEN deepClone(snap.objects) ELSE << >>

\* an applySnapshot(snap) that keeps the selection
applySnapshotKeepSel(snap) ==
  /\ tool' = SnapTool(snap)
  /\ color' = SnapColor(snap)
  /\ size' = SnapSize(snap)
  /\ zoom' = SnapZoom(snap)
  /\ panX' = SnapPanX(snap)
  /\ panY' = SnapPanY(snap)
  /\ title' = SnapTitle(snap)
  /\ bg' = SnapBg(snap)
  /\ objects' = SnapObjects(snap)
  /\ UNCHANGED selectionIndex
  /\ uiHandles' = computeHandles(tool', selectionIndex', objects', zoom', panX', panY')

\* applySnapshot(snap) without its assignment of state.svg
applySnapshotRest(snap) ==
  /\ tool' = SnapTool(snap)
  /\ color' = SnapColor(snap)
  /\ size' = SnapSize(snap)
  /\ zoom' = SnapZoom(snap)
  /\ panX' = SnapPanX(snap)
  /\ panY' = SnapPanY(snap)
  /\ title' = SnapTitle(snap)
  /\ bg' = SnapBg(snap)
  /\ objects' = SnapObjects(snap)
  /\ selectionIndex' = -1
  /\ uiHandles' = computeHandles(tool', selectionIndex', objects', zoom', panX', panY')

\* applySnapshot(snap), with its redrawAll()
applySnapshot(snap) ==
  /\ svg' = SnapSvg(snap)
  /\ applySnapshotRest(snap)

\* a pushUndo() without the bound
pushUndoNoDrop(u) == Append(u, JSONstringify(snapshot))

\* a pushUndo() that records the snapshot twice
pushUndoTwice(u) == Append(Append(u, JSONstringify(snapshot)), JSONstringify(snapshot))

\* a pushUndo() whose entries all share the live state: every entry reads as
\* the state at the last push
pushUndoShared(u) ==
  Append([i \in 1..Len(u) |-> JSONstringify(snapshot)], JSONstringify(snapshot))

\* pushUndo(): the undo stack after it
pushUndo(u) ==
  LET u1 == Append(u, JSONstringify(snapshot)) IN
    IF Len(u1) > UndoLimit THEN Tail1(u1) ELSE u1

\* a clearRedo() that clears nothing
keepRedo(r) == r

\* clearRedo(): the redo stack after it
clearRedo(r) == << >>

\* hardResetGesture(): the gesture object after it
ResetGesture ==
  [active |-> FALSE, pointerId |-> 0, mode |-> "none",
   startWorld |-> Null, startScreen |-> Null, lastWorld |-> Null, lastScreen |-> Null,
   activeObj |-> -1, selIndex |-> -1, selStartObj |-> Null, selAnchor |-> Null,
   selStartVec |-> Null, selStartAngle |-> 0, bgStart |-> Null]
\* a hardResetGesture() that leaves the gesture as it is
keepGesture(g) == g
hardResetGesture(g) == ResetGesture

\* the record of the last event: handler, pointer id, screen position,
\* modifier keys, a text argument, and whether the handler called pushUndo
Event(op, pid, sx, sy, shift, ctrl, arg, pushed) ==
  [op |-> op, pid |-> pid, sx |-> sx, sy |-> sy, shift |-> shift, ctrl |-> ctrl,
   arg |-> arg, pushed |-> pushed]
SimpleEvent(op, pushed) == Event(op, 0, 0, 0, FALSE, FALSE, "", pushed)

\* undo(), called with a non-empty undo stack
undoStep ==
  /\ redo' = Append(redo, JSONstringify(snapshot))
  /\ applySnapshot(JSONparse(Last(undo)))
  /\ undo' = Front(undo)

\* redo(), called with a non-empty redo stack
redoStep ==
  /\ undo' = Append(undo, JSONstringify(snapshot))
  /\ applySnapshot(JSONparse(Last(redo)))
  /\ redo' = Front(redo)

\* ------------------------------------------------------------------------
\* Inputs
\* ------------------------------------------------------------------------
Pids == {1, 2}
\* pointer positions (screen): two opposite corners of a drawn shape, a point
\* above its top edge (where the rotate handle sits), and its centre
ScreenPts == { <<40, 60>>, <<100, 100>>, <<70, 34>> }
\* answers to prompt("Enter text:") ; "" stands for an empty or cancelled prompt
PromptTexts == {"", "Hi"}
Tools == {"select", "pen", "eraser", "line", "rect", "circle", "arrow", "text",
          "bgMove", "bgScale", "bgRotate"}
DrawTools == {"pen", "eraser", "line", "rect", "circle", "arrow"}
BgTools == {"bgMove", "bgScale", "bgRotate"}

\* redrawAll(): the part that is state, the handle cache of computeHandles()
Redraw == uiHandles' = computeHandles(tool', selectionIndex', objects', zoom', panX', panY')

\* ------------------------------------------------------------------------
\* Pointer down
\* ------------------------------------------------------------------------
\* the gesture fields onPointerDown sets before it looks at the tool
DownBase(g, pid, sx, sy) ==
  LET w == screenToWorld(sx, sy, zoom, panX, panY) IN
    [g EXCEPT !.active = TRUE, !.pointerId = pid,
              !.startScreen = [sx |-> sx, sy |-> sy], !.lastScreen = [sx |-> sx, sy |-> sy],
              !.startWorld = w, !.lastWorld = w, !.activeObj = -1]

\* the gesture fields beginSelectionTransform / the selection branch of
\* beginToolTransformForSelectionOrBg set, for kind in move / scale / rotate
BeginSel(g, kind, idx, objs, w) ==
  LET c == BoundsCenter(objs[idx + 1])
      g1 == [g EXCEPT !.selIndex = idx, !.selStartObj = deepClone(objs[idx + 1]),
                      !.selAnchor = c, !.startWorld = w]
  IN IF kind = "move" THEN [g1 EXCEPT !.mode = "selMove"]
     ELSE IF kind = "scale"
       THEN [g1 EXCEPT !.mode = "selScale", !.selStartVec = Pt(w.x - c.x, w.y - c.y)]
     ELSE [g1 EXCEPT !.mode = "selRotate", !.selStartAngle = Atan2(w.y - c.y, w.x - c.x)]

\* space held: pan
DownPan(pid, sx, sy) ==
  /\ gesture' = [DownBase(gesture, pid, sx, sy) EXCEPT !.mode = "pan"]
  /\ ev' = Event("pointerdown", pid, sx, sy, FALSE, FALSE, "", FALSE)
  /\ UNCHANGED << tool, objects, undo, redo, selectionIndex, uiHandles >>

\* a test of the prompt's answer that takes every answer as text
AnswerNeverEmpty(text) == FALSE
\* !text : the prompt was cancelled (null) or left empty
AnswerEmpty(text) == text = ""

\* text tool: prompt, place, select
DownText(pid, sx, sy, text) ==
  LET w == screenToWorld(sx, sy, zoom, panX, panY)
      g1 == [DownBase(gesture, pid, sx, sy) EXCEPT !.active = FALSE, !.mode = "none"]
  IN /\ gesture' = g1
     /\ IF AnswerEmpty(text)
          THEN /\ ev' = Event("pointerdown", pid, sx, sy, FALSE, FALSE, text, FALSE)
               /\ UNCHANGED << tool, objects, undo, redo, selectionIndex, uiHandles >>
          ELSE /\ undo' = pushUndo(undo)
               /\ redo' = clearRedo(redo)
               /\ objects' = Append(objects,
                      [kind |-> "text", x |-> w.x, y |-> w.y, text |-> text, color |-> color,
                       fontSize |-> Max2(14, MathRound(size * 4, 1)), rot |-> 0])
               /\ selectionIndex' = Len(objects') - 1
               /\ tool' = "select"
               /\ ev' = Event("pointerdown", pid, sx, sy, FALSE, FALSE, text, TRUE)
               /\ Redraw

\* bg tools that take the background whenever an image is loaded
DownBgToolBgFirst(pid, sx, sy) ==
  LET w == screenToWorld(sx, sy, zoom, panX, panY)
      g0 == DownBase(gesture, pid, sx, sy)
      kind == IF tool = "bgMove" THEN "move" ELSE IF tool = "bgScale" THEN "scale" ELSE "rotate"
  IN /\ UNCHANGED << tool, objects, selectionIndex, uiHandles >>
     /\ IF bg.src # ""
          THEN /\ undo' = pushUndo(undo)
               /\ redo' = clearRedo(redo)
               /\ gesture' = [g0 EXCEPT !.bgStart = bg, !.startWorld = w, !.mode = tool]
               /\ ev' = Event("pointerdown", pid, sx, sy, FALSE, FALSE, "", TRUE)
          ELSE IF selectionIndex >= 0
          THEN /\ undo' = pushUndo(undo)
               /\ redo' = clearRedo(redo)
               /\ gesture' = BeginSel(g0, kind, selectionIndex, objects, w)
               /\ ev' = Event("pointerdown", pid, sx, sy, FALSE, FALSE, "", TRUE)
          ELSE /\ gesture' = g0
               /\ ev' = Event("pointerdown", pid, sx, sy, FALSE, FALSE, "", FALSE)
               /\ UNCHANGED << undo, redo >>

\* a select tool that tests the objects first and the handles only when no
\* object is under the pointer
DownSelectHitFirst(pid, sx, sy) ==
  LET w == screenToWorld(sx, sy, zoom, panX, panY)
      g0 == DownBase(gesture, pid, sx, sy)
      handle == hitHandle(uiHandles, sx, sy)
      hit == findHit(objects, w.x, w.y)
  IN /\ UNCHANGED << tool, objects >>
     /\ IF hit < 0 /\ handle # "none" /\ selectionIndex >= 0
          THEN /\ undo' = pushUndo(undo)
               /\ redo' = clearRedo(redo)
               /\ gesture' = BeginSel(g0, handle, selectionIndex, objects, w)
               /\ ev' = Event("pointerdown", pid, sx, sy, FALSE, FALSE, "", TRUE)
               /\ UNCHANGED selectionIndex
          ELSE /\ selectionIndex' = hit
               /\ IF hit >= 0
                    THEN /\ undo' = pushUndo(undo)
                         /\ redo' = clearRedo(redo)
                         /\ gesture' = BeginSel(g0, "move", hit, objects, w)
                         /\ ev' = Event("pointerdown", pid, sx, sy, FALSE, FALSE, "", TRUE)
                    ELSE /\ gesture' = [g0 EXCEPT !.mode = "select"]
                         /\ ev' = Event("pointerdown", pid, sx, sy, FALSE, FALSE, "", FALSE)
                         /\ UNCHANGED << undo, redo >>
     /\ Redraw

\* select tool: handles of the current selection first, then the objects
DownSelect(pid, sx, sy) ==
  LET w == screenToWorld(sx, sy, zoom, panX, panY)
      g0 == DownBase(gesture, pid, sx, sy)
      handle == hitHandle(uiHandles, sx, sy)
      hit == findHit(objects, w.x, w.y)
  IN /\ UNCHANGED << tool, objects >>
     /\ IF handle # "none" /\ selectionIndex >= 0
          THEN /\ undo' = pushUndo(undo)
               /\ redo' = clearRedo(redo)
               /\ gesture' = BeginSel(g0, handle, selectionIndex, objects, w)
               /\ ev' = Event("pointerdown", pid, sx, sy, FALSE, FALSE, "", TRUE)
               /\ UNCHANGED selectionIndex
          ELSE /\ selectionIndex' = hit
               /\ IF hit >= 0
                    THEN /\ undo' = pushUndo(undo)
                         /\ redo' = clearRedo(redo)
                         /\ gesture' = BeginSel(g0, "move", hit, objects, w)
                         /\ ev' = Event("pointerdown", pid, sx, sy, FALSE, FALSE, "", TRUE)
                    ELSE /\ gesture' = [g0 EXCEPT !.mode = "select"]
                         /\ ev' = Event("pointerdown", pid, sx, sy, FALSE, FALSE, "", FALSE)
                         /\ UNCHANGED << undo, redo >>
     /\ Redraw

\* bgMove / bgScale / bgRotate: the selection if there is one, else the background
DownBgTool(pid, sx, sy) ==
  LET w == screenToWorld(sx, sy, zoom, panX, panY)
      g0 == DownBase(gesture, pid, sx, sy)
      kind == IF tool = "bgMove" THEN "move" ELSE IF tool = "bgScale" THEN "scale" ELSE "rotate"
  IN /\ UNCHANGED << tool, objects, selectionIndex, uiHandles >>
     /\ IF selectionIndex >= 0
          THEN /\ undo' = pushUndo(undo)
               /\ redo' = clearRedo(redo)
               /\ gesture' = BeginSel(g0, kind, selectionIndex, objects, w)
               /\ ev' = Event("pointerdown", pid, sx, sy, FALSE, FALSE, "", TRUE)
          ELSE IF bg.src = ""
          THEN /\ gesture' = g0
               /\ ev' = Event("pointerdown", pid, sx, sy, FALSE, FALSE, "", FALSE)
               /\ UNCHANGED << undo, redo >>
          ELSE /\ undo' = pushUndo(undo)
               /\ redo' = clearRedo(redo)
               /\ gesture' = [g0 EXCEPT !.bgStart = bg, !.startWorld = w, !.mode = tool]
               /\ ev' = Event("pointerdown", pid, sx, sy, FALSE, FALSE, "", TRUE)

\* a pointer-down that starts a pen stroke whatever the drawing tool is
NewObjectStroke(tl, w) ==
  [kind |-> "stroke", color |-> color, size |-> size, points |-> << w >>]

\* the object a drawing tool starts at world point w
NewObject(tl, w) ==
  IF tl = "pen" THEN [kind |-> "stroke", color |-> color, size |-> size, points |-> << w >>]
  ELSE IF tl = "eraser"
    THEN [kind |-> "erase", size |-> Max2(10, RDiv(size * 22, 10)), points |-> << w >>]
  ELSE [kind |-> tl, color |-> color, size |-> size,
        x1 |-> w.x, y1 |-> w.y, x2 |-> w.x, y2 |-> w.y, rot |-> 0]

\* drawing tools: push a new object and enter the matching draw mode
DownDraw(pid, sx, sy) ==
  LET w == screenToWorld(sx, sy, zoom, panX, panY)
      g0 == DownBase(gesture, pid, sx, sy)
  IN /\ undo' = pushUndo(undo)
     /\ redo' = clearRedo(redo)
     /\ selectionIndex' = -1
     /\ objects' = Append(objects, NewObject(tool, w))
     /\ gesture' = [g0 EXCEPT !.activeObj = Len(objects),
                              !.mode = IF tool = "pen" THEN "drawStroke"
                                       ELSE IF tool = "eraser" THEN "drawErase"
                                       ELSE "drawShape"]
     /\ ev' = Event("pointerdown", pid, sx, sy, FALSE, FALSE, "", TRUE)
     /\ UNCHANGED tool
     /\ Redraw

\* entry rules that look at the tool before the space key
onPointerDownToolFirst(pid, sx, sy, text) ==
  /\ UNCHANGED << color, size, zoom, panX, panY, title, svg, bg, svgNodes, svgLayer,
                  bgImgSrc, boards, exported, spacePanning >>
  /\ IF tool = "text" THEN DownText(pid, sx, sy, text)
     ELSE IF tool = "select" THEN DownSelect(pid, sx, sy)
     ELSE IF spacePanning THEN DownPan(pid, sx, sy)
     ELSE IF tool \in BgTools THEN DownBgTool(pid, sx, sy)
     ELSE DownDraw(pid, sx, sy)

\* onPointerDown(e): the entry rules in the order of the code
onPointerDown(pid, sx, sy, text) ==
  /\ UNCHANGED << color, size, zoom, panX, panY, title, svg, bg, svgNodes, svgLayer,
                  bgImgSrc, boards, exported, spacePanning >>
  /\ IF spacePanning THEN DownPan(pid, sx, sy)
     ELSE IF tool = "text" THEN DownText(pid, sx, sy, text)
     ELSE IF tool = "select" THEN DownSelect(pid, sx, sy)
     ELSE IF tool \in BgTools THEN DownBgTool(pid, sx, sy)
     ELSE DownDraw(pid, sx, sy)

\* ------------------------------------------------------------------------
\* Pointer move
\* ------------------------------------------------------------------------
\* a[i] = v on a JavaScript array, i 0-based (i = length appends; beyond it
\* the array gets holes, which no reachable state of the model produces)
SetAt(objs, i, v) ==
  IF i < Len(objs) THEN [objs EXCEPT ![i + 1] = v]
  ELSE [k \in 1..(i + 1) |-> IF k <= Len(objs) THEN objs[k] ELSE IF k = i + 1 THEN v ELSE Null]

\* v1 / v0 per axis, or 1 when the start component is (nearly) 0 ; units 1/FX
AxisFactor(v1, v0) == IF v0 = 0 THEN FX ELSE RDiv(v1 * FX, v0)
\* l1 / l0 of the vector lengths, each length replaced by 1 when it is 0
LengthFactor(v1x, v1y, v0x, v0y) ==
  LET l0 == IF Hypot10(v0x, v0y) = 0 THEN 10 ELSE Hypot10(v0x, v0y)
      l1 == IF Hypot10(v1x, v1y) = 0 THEN 10 ELSE Hypot10(v1x, v1y)
  IN RDiv(l1 * FX, l0)

\* selMove: the object written over the live one
SelMoveResult(obj0, start, w) == moveObject(deepClone(obj0), w.x - start.x, w.y - start.y)

\* selScale, own-rotation branch (rect / circle / text with a non-zero angle)
SelScaleOwnRot(obj0, a, start, w, shift) ==
  LET ang == RotOf(obj0)
      v0 == ToLocal(start.x, start.y, a.x, a.y, ang)
      v1 == ToLocal(w.x, w.y, a.x, a.y, ang)
      f == LengthFactor(v1.x, v1.y, v0.x, v0.y)
      fx == IF shift THEN f ELSE AxisFactor(v1.x, v0.x)
      fy == IF shift THEN f ELSE AxisFactor(v1.y, v0.y)
      obj == deepClone(obj0)
  IN IF obj.kind = "text" THEN
       LET uni == Max2(2 * (FX \div 10), RDiv(Abs(fx) + Abs(fy), 2))
           m0 == textMetrics(obj0)
       IN [obj EXCEPT !.fontSize = Max2(6, RDiv(obj0.fontSize * uni, FX)),
                      !.x = a.x - RDiv(m0.w, 2), !.y = a.y - RDiv(m0.h, 2)]
     ELSE
       LET w0 == Abs(obj0.x2 - obj0.x1)
           h0 == Abs(obj0.y2 - obj0.y1)
           w1 == Max2(1, RDiv(w0 * fx, FX))
           h1 == Max2(1, RDiv(h0 * fy, FX))
       IN [obj EXCEPT !.x1 = a.x - RDiv(w1, 2), !.x2 = a.x + RDiv(w1, 2),
                      !.y1 = a.y - RDiv(h1, 2), !.y2 = a.y + RDiv(h1, 2)]

\* selScale, axis-aligned branch
SelScaleAxis(obj0, a, start, w, shift) ==
  LET v0 == Pt(start.x - a.x, start.y - a.y)
      v1 == Pt(w.x - a.x, w.y - a.y)
      f == LengthFactor(v1.x, v1.y, v0.x, v0.y)
      fx == IF shift THEN f ELSE AxisFactor(v1.x, v0.x)
      fy == IF shift THEN f ELSE AxisFactor(v1.y, v0.y)
  IN scaleObjectXY(deepClone(obj0), fx, fy, a.x, a.y)

SelScaleResult(obj0, a, start, w, shift) ==
  IF obj0.kind \in OwnRotKinds /\ RotOf(obj0) # 0
    THEN SelScaleOwnRot(obj0, a, start, w, shift)
    ELSE SelScaleAxis(obj0, a, start, w, shift)

\* selRotate: delta from the start angle, snapped to 15 degrees with Shift
RotateDelta(a, a0, w, shift) ==
  LET delta == Atan2(w.y - a.y, w.x - a.x) - a0 IN
    IF shift THEN MathRound(delta, 15) * 15 ELSE delta
SelRotateResult(obj0, a, a0, w, shift) ==
  rotateObject(deepClone(obj0), RotateDelta(a, a0, w, shift))

\* a background pointer-move whose bgScale derives the position from the
\* scaled size of the image
BgMoveResultScaled(mode, bg0, start, w) ==
  LET cx0 == bg0.x + RDiv(bg0.natW, 2)
      cy0 == bg0.y + RDiv(bg0.natH, 2)
  IN IF mode = "bgMove"
       THEN [bg0 EXCEPT !.x = bg0.x + (w.x - start.x), !.y = bg0.y + (w.y - start.y)]
     ELSE IF mode = "bgScale"
       THEN LET factor == LengthFactor(w.x - cx0, w.y - cy0, start.x - cx0, start.y - cy0)
                sc == clamp(RDiv(bg0.scale * factor, FX), 5 * (FX \div 100), 10 * FX)
            IN [bg0 EXCEPT !.scale = sc,
                           !.x = cx0 - RDiv(bg0.natW * sc, 2 * FX),
                           !.y = cy0 - RDiv(bg0.natH * sc, 2 * FX)]
     ELSE [bg0 EXCEPT !.rot = bg0.rot + (Atan2(w.y - cy0, w.x - cx0)
                                          - Atan2(start.y - cy0, start.x - cx0))]

\* the background written by a bgMove / bgScale / bgRotate pointer-move
BgMoveResult(mode, bg0, start, w) ==
  LET cx0 == bg0.x + RDiv(bg0.natW, 2)
      cy0 == bg0.y + RDiv(bg0.natH, 2)
  IN IF mode = "bgMove"
       THEN [bg0 EXCEPT !.x = bg0.x + (w.x - start.x), !.y = bg0.y + (w.y - start.y)]
     ELSE IF mode = "bgScale"
       THEN LET factor == LengthFactor(w.x - cx0, w.y - cy0, start.x - cx0, start.y - cy0)
            IN [bg0 EXCEPT !.scale = clamp(RDiv(bg0.scale * factor, FX), 5 * (FX \div 100), 10 * FX),
                           !.x = cx0 - RDiv(bg0.natW, 2), !.y = cy0 - RDiv(bg0.natH, 2)]
     ELSE [bg0 EXCEPT !.rot = bg0.rot + (Atan2(w.y - cy0, w.x - cx0)
                                          - Atan2(start.y - cy0, start.x - cx0))]

\* the snap angles of snapAngleRad, in its order
SnapsDeg == << 0, 30, 45, 60, 90, 120, 135, 150, -30, -45, -60, -90, -120, -135, -150, 180 >>
\* |atan2(sin d, cos d)| : the size of an angle difference, in 0..180
AngDist(d) == LET a == NormDeg(d) IN IF a > 180 THEN 360 - a ELSE a
\* a snap to the multiples of 30 degrees only
snapAngleRad30(a) == 30 * MathRound(a, 30)
\* snapAngleRad: the first snap angle at the least distance
snapAngleRad(a) ==
  LET best == CHOOSE i \in 1..Len(SnapsDeg) :
                /\ \A j \in 1..Len(SnapsDeg) : AngDist(a - SnapsDeg[i]) <= AngDist(a - SnapsDeg[j])
                /\ \A j \in 1..(i - 1) : AngDist(a - SnapsDeg[j]) > AngDist(a - SnapsDeg[i])
  IN SnapsDeg[best]

snapEndpointToAngles(x1, y1, x2, y2) ==
  LET len10 == Hypot10(x2 - x1, y2 - y1)
      snapped == snapAngleRad(Atan2(y2 - y1, x2 - x1))
  IN IF len10 = 0 THEN Pt(x2, y2)
     ELSE Pt(x1 + RDiv(Cos(snapped) * len10, 10 * TRIG),
             y1 + RDiv(Sin(snapped) * len10, 10 * TRIG))

\* drawShape: the active object after a pointer-move to w
DrawShapeResult(obj, w, snapHeld) ==
  LET p == IF snapHeld /\ obj.kind \in {"line", "arrow"}
             THEN snapEndpointToAngles(obj.x1, obj.y1, w.x, w.y)
             ELSE w
  IN [obj EXCEPT !.x2 = p.x, !.y2 = p.y]

MoveIsPan == gesture.mode = "pan" /\ gesture.lastScreen # Null
MoveIsSelMove == /\ gesture.mode = "selMove" /\ gesture.selIndex >= 0
                 /\ gesture.selStartObj # Null /\ gesture.startWorld # Null
MoveIsSelScale == /\ gesture.mode = "selScale" /\ gesture.selIndex >= 0
                  /\ gesture.selStartObj # Null /\ gesture.selAnchor # Null
                  /\ gesture.startWorld # Null
MoveIsSelRotate == /\ gesture.mode = "selRotate" /\ gesture.selIndex >= 0
                   /\ gesture.selStartObj # Null /\ gesture.selAnchor # Null
MoveIsBg == /\ gesture.mode \in BgTools /\ gesture.bgStart # Null
            /\ gesture.startWorld # Null
MoveIsDrawPts == gesture.mode \in {"drawStroke", "drawErase"} /\ gesture.activeObj >= 0
MoveIsDrawShape == gesture.mode = "drawShape" /\ gesture.activeObj >= 0

\* the object a selMove / selScale / selRotate pointer-move writes
SelResult(g, w, shift) ==
  IF g.mode = "selMove" THEN SelMoveResult(g.selStartObj, g.startWorld, w)
  ELSE IF g.mode = "selScale"
    THEN SelScaleResult(g.selStartObj, g.selAnchor, g.startWorld, w, shift)
  ELSE SelRotateResult(g.selStartObj, g.selAnchor, g.selStartAngle, w, shift)

\* a write that transforms the live object instead of the start snapshot
SelApplyLive(objs, g, w, shift) ==
  SetAt(objs, g.selIndex,
        SelResult([g EXCEPT !.selStartObj = deepClone(objs[g.selIndex + 1])], w, shift))

\* the write of a selection pointer-move into the object array
SelApply(objs, g, w, shift) == SetAt(objs, g.selIndex, SelResult(g, w, shift))

\* a pan step that converts the pointer delta to world units
PanDeltaWorld(s, last) == RDiv((s - last) * FX, zoom)

\* the pan step of a pointer-move: the raw screen-space delta, s - last
PanDelta(s, last) == s - last

\* a stroke pointer-move that moves the last point instead of adding one
DrawPtsResultLast(obj, w) == [obj EXCEPT !.points = Append(Front(@), w)]

\* gesture.activeObj.points.push(w)
DrawPtsResult(obj, w) == [obj EXCEPT !.points = Append(@, w)]

\* onPointerMove(e)
\* history: a pointer-move is "stale" when it follows an undo or redo that
\* interrupted a gesture, with no pointer-down in between
MoveArg ==
  IF \/ ev.op \in {"undo", "redo"} /\ ev.arg = "midgesture"
     \/ ev.op = "pointermove" /\ ev.arg = "stale"
  THEN "stale" ELSE ""

onPointerMove(pid, sx, sy, shift, ctrl) ==
  LET w == screenToWorld(sx, sy, zoom, panX, panY) IN
  /\ UNCHANGED << tool, color, size, zoom, title, svg, undo, redo, selectionIndex,
                  spacePanning, svgNodes, svgLayer, bgImgSrc, boards, exported >>
  /\ IF ~gesture.active
       THEN /\ ev' = Event("pointermove", pid, 0, 0, FALSE, FALSE, MoveArg, FALSE)
            /\ UNCHANGED << panX, panY, bg, objects, uiHandles, gesture >>
     ELSE IF MoveIsPan
       THEN /\ panX' = panX + PanDelta(sx, gesture.lastScreen.sx)
            /\ panY' = panY + PanDelta(sy, gesture.lastScreen.sy)
            /\ gesture' = [gesture EXCEPT !.lastScreen = [sx |-> sx, sy |-> sy]]
            /\ ev' = Event("pointermove", pid, sx, sy, FALSE, FALSE, MoveArg, FALSE)
            /\ UNCHANGED << bg, objects >>
            /\ Redraw
     ELSE IF MoveIsSelMove \/ MoveIsSelScale \/ MoveIsSelRotate
       THEN /\ objects' = SelApply(objects, gesture, w, shift /\ gesture.mode # "selMove")
            /\ ev' = Event("pointermove", pid, sx, sy, shift /\ gesture.mode # "selMove",
                           FALSE, MoveArg, FALSE)
            /\ UNCHANGED << panX, panY, bg, gesture >>
            /\ Redraw
     ELSE IF MoveIsBg
       THEN /\ bg' = BgMoveResult(gesture.mode, gesture.bgStart, gesture.startWorld, w)
            /\ ev' = Event("pointermove", pid, sx, sy, FALSE, FALSE, MoveArg, FALSE)
            /\ UNCHANGED << panX, panY, objects, gesture >>
            /\ Redraw
     ELSE IF MoveIsDrawPts
       THEN /\ Len(objects[gesture.activeObj + 1].points) < MaxPts
            /\ objects' = [objects EXCEPT ![gesture.activeObj + 1] = DrawPtsResult(@, w)]
            /\ ev' = Event("pointermove", pid, sx, sy, FALSE, FALSE, MoveArg, FALSE)
            /\ UNCHANGED << panX, panY, bg, gesture >>
            /\ Redraw
     ELSE IF MoveIsDrawShape
       THEN /\ objects' = [objects EXCEPT ![gesture.activeObj + 1] = DrawShapeResult(@, w, ctrl)]
            /\ ev' = Event("pointermove", pid, sx, sy, FALSE, ctrl, MoveArg, FALSE)
            /\ UNCHANGED << panX, panY, bg, gesture >>
            /\ Redraw
     ELSE /\ ev' = Event("pointermove", pid, 0, 0, FALSE, FALSE, MoveArg, FALSE)
          /\ UNCHANGED << panX, panY, bg, objects, uiHandles, gesture >>

\* an onPointerUp() that records an undo entry when the gesture ends
onPointerUpPush(pid) ==
  /\ ev' = Event("pointerup", pid, 0, 0, FALSE, FALSE, "", FALSE)
  /\ gesture' = IF gesture.active THEN hardResetGesture(gesture) ELSE gesture
  /\ undo' = IF gesture.active THEN pushUndo(undo) ELSE undo
  /\ UNCHANGED << tool, color, size, zoom, panX, panY, title, svg, bg, objects, redo,
                  selectionIndex, uiHandles, spacePanning, svgNodes, svgLayer, bgImgSrc,
                  boards, exported >>

\* onPointerUp() (pointerup and pointercancel)
onPointerUp(pid) ==
  /\ ev' = Event("pointerup", pid, 0, 0, FALSE, FALSE, "", FALSE)
  /\ gesture' = IF gesture.active THEN hardResetGesture(gesture) ELSE gesture
  /\ UNCHANGED << tool, color, size, zoom, panX, panY, title, svg, bg, objects, undo, redo,
                  selectionIndex, uiHandles, spacePanning, svgNodes, svgLayer, bgImgSrc,
                  boards, exported >>

\* ------------------------------------------------------------------------
\* Keyboard
\* ------------------------------------------------------------------------
\* the variables no keyboard or button handler below touches unless it says so
KeepCamera == UNCHANGED << zoom, panX, panY >>
KeepStyle == UNCHANGED << color, size >>
KeepOverlay == UNCHANGED << svg, svgNodes, svgLayer >>
KeepBg == UNCHANGED << bg, bgImgSrc >>
KeepHistory == UNCHANGED << undo, redo >>
KeepStore == UNCHANGED << boards, exported >>

\* keydown / keyup of Space
KeySpace(down) ==
  /\ spacePanning' = down
  /\ ev' = SimpleEvent(IF down THEN "spacedown" ELSE "spaceup", FALSE)
  /\ UNCHANGED << tool, title, objects, selectionIndex, uiHandles, gesture >>
  /\ KeepCamera /\ KeepStyle /\ KeepOverlay /\ KeepBg /\ KeepHistory /\ KeepStore

\* a zoom that stores the request as it came
setZoomToUnclamped(newZoom, anchorSX, anchorSY) ==
  /\ zoom' = newZoom
  /\ panX' = RDiv(ZoomPanUnclamped(anchorSX, panX, zoom, newZoom).num, zoom)
  /\ panY' = RDiv(ZoomPanUnclamped(anchorSY, panY, zoom, newZoom).num, zoom)

\* setZoomTo(newZoom, anchorSX, anchorSY) ; its redrawAll() is the Redraw of
\* the caller
setZoomTo(newZoom, anchorSX, anchorSY) ==
  /\ zoom' = clamp(newZoom, ZoomMin, ZoomMax)
  /\ panX' = RDiv(ZoomPan(anchorSX, panX, zoom, newZoom).num,
                  ZoomPan(anchorSX, panX, zoom, newZoom).den)
  /\ panY' = RDiv(ZoomPan(anchorSY, panY, zoom, newZoom).num,
                  ZoomPan(anchorSY, panY, zoom, newZoom).den)

\* the wheel listener of the canvas; dir = Math.sign(e.deltaY)
onWheel(sx, sy, dir) ==
  /\ setZoomTo(WheelRequest(zoom, dir), sx, sy)
  /\ ev' = Event("wheel", 0, sx, sy, FALSE, FALSE, IF dir > 0 THEN "out" ELSE "in", FALSE)
  /\ UNCHANGED << tool, title, objects, selectionIndex, gesture, spacePanning >>
  /\ KeepStyle /\ KeepOverlay /\ KeepBg /\ KeepHistory /\ KeepStore
  /\ Redraw

\* setActiveTool(t): a tool hotkey or a dock button (no redraw)
SetTool(t) ==
  /\ tool' = t
  /\ ev' = Event("settool", 0, 0, 0, FALSE, FALSE, t, FALSE)
  /\ UNCHANGED << title, objects, selectionIndex, uiHandles, gesture, spacePanning >>
  /\ KeepCamera /\ KeepStyle /\ KeepOverlay /\ KeepBg /\ KeepHistory /\ KeepStore

\* a Delete that clears the redo stack before it looks at the selection
KeyDeleteClearsRedo ==
  /\ redo' = clearRedo(redo)
  /\ IF selectionIndex >= 0
       THEN /\ undo' = pushUndo(undo)
            /\ objects' = Splice1(objects, selectionIndex)
            /\ selectionIndex' = -1
            /\ ev' = SimpleEvent("delete", TRUE)
       ELSE /\ ev' = SimpleEvent("delete", FALSE)
            /\ UNCHANGED << undo, objects, selectionIndex >>
  /\ UNCHANGED << tool, title, gesture, spacePanning >>
  /\ KeepCamera /\ KeepStyle /\ KeepOverlay /\ KeepBg /\ KeepStore
  /\ IF selectionIndex >= 0 THEN Redraw ELSE UNCHANGED uiHandles

\* Delete / Backspace
KeyDelete ==
  /\ IF selectionIndex >= 0
       THEN /\ undo' = pushUndo(undo)
            /\ redo' = clearRedo(redo)
            /\ objects' = Splice1(objects, selectionIndex)
            /\ selectionIndex' = -1
            /\ ev' = SimpleEvent("delete", TRUE)
       ELSE /\ ev' = SimpleEvent("delete", FALSE)
            /\ UNCHANGED << undo, redo, objects, selectionIndex >>
  /\ UNCHANGED << tool, title, gesture, spacePanning >>
  /\ KeepCamera /\ KeepStyle /\ KeepOverlay /\ KeepBg /\ KeepStore
  /\ IF selectionIndex >= 0 THEN Redraw ELSE UNCHANGED uiHandles

\* an undo without the test of the stack: the snapshot goes to the redo stack
\* also when there is nothing to undo
KeyUndoUnguarded ==
  /\ gesture' = hardResetGesture(gesture)
  /\ ev' = Event("undo", 0, 0, 0, FALSE, FALSE, IF gesture.active THEN "midgesture" ELSE "", FALSE)
  /\ IF undo # << >> THEN undoStep
     ELSE /\ redo' = Append(redo, JSONstringify(snapshot))
          /\ UNCHANGED << tool, color, size, zoom, panX, panY, title, svg, bg, objects,
                          undo, selectionIndex, uiHandles >>
  /\ UNCHANGED << spacePanning, svgNodes, svgLayer, bgImgSrc >>
  /\ KeepStore

\* Ctrl/Cmd+Z : hardResetGesture(); undo()
KeyUndo ==
  /\ gesture' = hardResetGesture(gesture)
  /\ ev' = Event("undo", 0, 0, 0, FALSE, FALSE, IF gesture.active THEN "midgesture" ELSE "", FALSE)
  /\ IF undo # << >> THEN undoStep
     ELSE UNCHANGED << tool, color, size, zoom, panX, panY, title, svg, bg, objects,
                       undo, redo, selectionIndex, uiHandles >>
  /\ UNCHANGED << spacePanning, svgNodes, svgLayer, bgImgSrc >>
  /\ KeepStore

\* Ctrl/Cmd+Y or Ctrl/Cmd+Shift+Z : hardResetGesture(); redo()
KeyRedo ==
  /\ gesture' = hardResetGesture(gesture)
  /\ ev' = Event("redo", 0, 0, 0, FALSE, FALSE, IF gesture.active THEN "midgesture" ELSE "", FALSE)
  /\ IF redo # << >> THEN redoStep
     ELSE UNCHANGED << tool, color, size, zoom, panX, panY, title, svg, bg, objects,
                       undo, redo, selectionIndex, uiHandles >>
  /\ UNCHANGED << spacePanning, svgNodes, svgLayer, bgImgSrc >>
  /\ KeepStore

\* revealTo(step): the node visibilities and the stored cursor
RevealVis(nodes, s) == [i \in 1..Len(nodes) |-> (i - 1) <= s]
RevealClamp(nodes, step) == Max2(-1, Min2(Len(nodes) - 1, step))

\* arrow keys / Home / End while an overlay with nodes is loaded
KeyReveal(target) ==
  /\ Len(svgNodes) > 0
  /\ svg' = [svg EXCEPT !.step = RevealClamp(svgNodes, target)]
  /\ svgNodes' = RevealVis(svgNodes, RevealClamp(svgNodes, target))
  /\ ev' = SimpleEvent("reveal", FALSE)
  /\ UNCHANGED << tool, title, objects, selectionIndex, uiHandles, gesture, spacePanning,
                  svgLayer >>
  /\ KeepCamera /\ KeepStyle /\ KeepBg /\ KeepHistory /\ KeepStore

\* ------------------------------------------------------------------------
\* Buttons, file loads, boards
\* ------------------------------------------------------------------------
\* state.viewW / state.viewH : the size of the stage, in CSS pixels
viewW == 200
viewH == 160

Titles == {"", "T"}
\* decoded images: a data URL with its natural size
Images == { [src |-> "imgA", natW |-> 80, natH |-> 40] }
\* overlay files: a text that is no SVG document, and a document
SvgTexts == {"notsvg", "svgA"}
\* DOMParser and collectRevealNodes on a text: is there an <svg> root, its
\* viewBox attribute, and the number of revealable nodes
SvgParse(text) ==
  IF text = "svgA" THEN [ok |-> TRUE, viewBox |-> "0 0 10 10", nodes |-> 2]
  ELSE [ok |-> FALSE, viewBox |-> "", nodes |-> 0]
BoardNames == {"b1"}

clearBtn ==
  /\ undo' = pushUndo(undo)
  /\ redo' = clearRedo(redo)
  /\ gesture' = hardResetGesture(gesture)
  /\ objects' = << >>
  /\ selectionIndex' = -1
  /\ tool' = "pen"
  /\ ev' = SimpleEvent("clear", TRUE)
  /\ UNCHANGED << title, spacePanning >>
  /\ KeepCamera /\ KeepStyle /\ KeepOverlay /\ KeepBg /\ KeepStore
  /\ Redraw

\* applyTitleBtn, with t the trimmed content of the title input
applyTitleBtn(t) ==
  /\ undo' = pushUndo(undo)
  /\ redo' = clearRedo(redo)
  /\ title' = t
  /\ ev' = Event("title", 0, 0, 0, FALSE, FALSE, t, TRUE)
  /\ UNCHANGED << tool, objects, selectionIndex, gesture, spacePanning >>
  /\ KeepCamera /\ KeepStyle /\ KeepOverlay /\ KeepBg /\ KeepStore
  /\ Redraw

\* the background img.onload stores: the image centred in the view and
\* scaled to fit it, on the camera (z, px, py)
FittedBg(img, z, px, py) ==
  LET viewCenter == screenToWorld(viewW \div 2, viewH \div 2, z, px, py)
      \* min(viewW / zoom / natW, viewH / zoom / natH) in units of 1/FX
      fit == Min2(RDiv(viewW * FX * FX, z * img.natW), RDiv(viewH * FX * FX, z * img.natH))
  IN [src |-> img.src, natW |-> img.natW, natH |-> img.natH,
      x |-> viewCenter.x - RDiv(img.natW, 2), y |-> viewCenter.y - RDiv(img.natH, 2),
      scale |-> clamp(fit, 5 * (FX \div 100), 10 * FX), rot |-> 0]

\* bgFile: img.onload of a chosen file that decoded
bgLoaded(img) ==
  /\ undo' = pushUndo(undo)
  /\ redo' = clearRedo(redo)
  /\ gesture' = hardResetGesture(gesture)
  /\ bg' = FittedBg(img, zoom, panX, panY)
  /\ bgImgSrc' = img.src
  /\ ev' = Event("bgload", 0, 0, 0, FALSE, FALSE, img.src, TRUE)
  /\ UNCHANGED << tool, title, objects, selectionIndex, spacePanning >>
  /\ KeepCamera /\ KeepStyle /\ KeepOverlay /\ KeepStore
  /\ Redraw

clearBgBtn ==
  /\ undo' = pushUndo(undo)
  /\ redo' = clearRedo(redo)
  /\ gesture' = hardResetGesture(gesture)
  /\ bg' = DefaultBg
  /\ bgImgSrc' = ""
  /\ ev' = SimpleEvent("bgclear", TRUE)
  /\ UNCHANGED << tool, title, objects, selectionIndex, spacePanning >>
  /\ KeepCamera /\ KeepStyle /\ KeepOverlay /\ KeepStore
  /\ Redraw

\* loadSvgText(text) on the given stored overlay state: the state after it
\* (unchanged when the text has no <svg> root)
LoadedSvg(text, z, px, py) ==
  LET viewCenter == screenToWorld(viewW \div 2, viewH \div 2, z, px, py) IN
    [src |-> text, x |-> viewCenter.x - 200, y |-> viewCenter.y - 200, scale |-> FX,
     rot |-> 0, viewBox |-> SvgParse(text).viewBox, step |-> -1,
     total |-> SvgParse(text).nodes]
HiddenNodes(text) == [i \in 1..SvgParse(text).nodes |-> FALSE]

\* svgFile: reader.onload of a chosen file
svgLoaded(text) ==
  /\ undo' = pushUndo(undo)
  /\ redo' = clearRedo(redo)
  /\ gesture' = hardResetGesture(gesture)
  /\ IF SvgParse(text).ok
       THEN /\ svg' = LoadedSvg(text, zoom, panX, panY)
            /\ svgNodes' = HiddenNodes(text)
            /\ svgLayer' = text
       ELSE UNCHANGED << svg, svgNodes, svgLayer >>
  /\ ev' = Event("svgload", 0, 0, 0, FALSE, FALSE, text, TRUE)
  /\ UNCHANGED << tool, title, objects, selectionIndex, spacePanning >>
  /\ KeepCamera /\ KeepStyle /\ KeepBg /\ KeepStore
  /\ IF SvgParse(text).ok THEN Redraw ELSE UNCHANGED uiHandles

\* svgResetBtn (all = FALSE) and svgShowAllBtn (all = TRUE)
svgSetAll(all) ==
  /\ Len(svgNodes) > 0
  /\ undo' = pushUndo(undo)
  /\ redo' = clearRedo(redo)
  /\ svgNodes' = [i \in 1..Len(svgNodes) |-> all]
  /\ svg' = [svg EXCEPT !.step = IF all THEN Len(svgNodes) - 1 ELSE -1]
  /\ ev' = SimpleEvent(IF all THEN "svgshowall" ELSE "svgreset", TRUE)
  /\ UNCHANGED << tool, title, objects, selectionIndex, gesture, spacePanning, svgLayer >>
  /\ KeepCamera /\ KeepStyle /\ KeepBg /\ KeepStore
  /\ Redraw

svgClearBtn ==
  /\ undo' = pushUndo(undo)
  /\ redo' = clearRedo(redo)
  /\ svgLayer' = ""
  /\ svgNodes' = << >>
  /\ svg' = DefaultSvg
  /\ ev' = SimpleEvent("svgclear", TRUE)
  /\ UNCHANGED << tool, title, objects, selectionIndex, gesture, spacePanning >>
  /\ KeepCamera /\ KeepStyle /\ KeepBg /\ KeepStore
  /\ Redraw

newBoardBtn ==
  /\ undo' = pushUndo(undo)
  /\ redo' = clearRedo(redo)
  /\ gesture' = hardResetGesture(gesture)
  /\ objects' = << >>
  /\ selectionIndex' = -1
  /\ title' = ""
  /\ zoom' = FX /\ panX' = 0 /\ panY' = 0
  /\ bg' = DefaultBg
  /\ bgImgSrc' = ""
  /\ tool' = "pen"
  /\ ev' = SimpleEvent("newboard", TRUE)
  /\ UNCHANGED spacePanning
  /\ KeepStyle /\ KeepOverlay /\ KeepStore
  /\ Redraw

\* snapshotBoard(): the snapshot with the format version (the save time is
\* not modelled)
snapshotBoard == [v |-> 7] @@ snapshot

\* saveBoardBtn with a non-empty name: the index is read from and written
\* back to localStorage as JSON
saveBoardBtn(name) ==
  /\ boards' = JSONstringify(
        [n \in DOMAIN JSONparse(boards) \cup {name} |->
           IF n = name THEN snapshotBoard ELSE JSONparse(boards)[n]])
  /\ ev' = Event("saveboard", 0, 0, 0, FALSE, FALSE, name, FALSE)
  /\ UNCHANGED << tool, title, objects, selectionIndex, uiHandles, gesture, spacePanning,
                  exported >>
  /\ KeepCamera /\ KeepStyle /\ KeepOverlay /\ KeepBg /\ KeepHistory

\* applyBoard(data): the overlay state after applySnapshot, loadSvgText and
\* revealTo(state.svg.step)
BoardSvg(data) ==
  LET s0 == SnapSvg(data) IN
    IF s0.src # "" /\ SvgParse(s0.src).ok
      THEN LoadedSvg(s0.src, SnapZoom(data), SnapPanX(data), SnapPanY(data))
      ELSE s0

\* loadBoardBtn with the name selected in boardSelect
loadBoardBtn(name) ==
  /\ name \in DOMAIN JSONparse(boards)
  /\ LET data == JSONparse(boards)[name] IN
       /\ gesture' = hardResetGesture(gesture)
       /\ undo' = << >>
       /\ redo' = << >>
       /\ applySnapshotRest(data)
       /\ svg' = BoardSvg(data)
       /\ svgLayer' = IF SnapSvg(data).src # "" /\ SvgParse(SnapSvg(data).src).ok
                        THEN SnapSvg(data).src ELSE ""
       /\ svgNodes' = IF SnapSvg(data).src # "" /\ SvgParse(SnapSvg(data).src).ok
                        THEN HiddenNodes(SnapSvg(data).src) ELSE << >>
       /\ bgImgSrc' = SnapBg(data).src
  /\ ev' = Event("loadboard", 0, 0, 0, FALSE, FALSE, name, FALSE)
  /\ UNCHANGED << spacePanning, boards, exported >>

\* ------------------------------------------------------------------------
\* Export SVG
\* ------------------------------------------------------------------------
\* The ink markup is kept as a tree instead of a string: an element
\* [tag, of] for the markup of the object at index `of` (its attributes are
\* left out), and [tag |-> "g", mask, of, children] for the group
\* <g mask="url(#m<mask>)"> that the erase object at index `of` caused.

\* a pathFromPoints that makes a path of a single point too
pathFromPointsAny(pts) ==
  IF Len(pts) < 1 THEN << >>
  ELSE [i \in 1..Len(pts) |-> [x |-> pts[i].x * 100, y |-> pts[i].y * 100]]

\* pathFromPoints(pts): the coordinates with two decimals, in hundredths;
\* << >> stands for the empty string
pathFromPoints(pts) ==
  IF Len(pts) < 2 THEN << >>
  ELSE [i \in 1..Len(pts) |-> [x |-> pts[i].x * 100, y |-> pts[i].y * 100]]

\* the state of the loop of exportSVG before the first object
ExportStart == [defs |-> << >>, pastLayer |-> << >>, currentLayer |-> << >>, maskCount |-> 0]

\* a wrapWithEraseMask that wraps the finished runs only
wrapOnlyPast(st, j, d, eraseSize) ==
  [st EXCEPT !.maskCount = @ + 1,
             !.defs = Append(@, [id |-> st.maskCount + 1, d |-> d,
                                 strokeW |-> Max2(1, IF eraseSize = 0 THEN 20 ELSE eraseSize)]),
             !.pastLayer = << [tag |-> "g", mask |-> st.maskCount + 1, of |-> j,
                               children |-> st.pastLayer] >>]

\* wrapWithEraseMask(erasePathD, eraseSize), called for the object at index j
wrapWithEraseMask(st, j, d, eraseSize) ==
  [st EXCEPT !.maskCount = @ + 1,
             !.defs = Append(@, [id |-> st.maskCount + 1, d |-> d,
                                 strokeW |-> Max2(1, IF eraseSize = 0 THEN 20 ELSE eraseSize)]),
             !.pastLayer = << [tag |-> "g", mask |-> st.maskCount + 1, of |-> j,
                               children |-> st.pastLayer \o st.currentLayer] >>,
             !.currentLayer = << >>]

\* the element a non-erase object appends to the current run
ElementTag(obj) ==
  IF obj.kind \in {"stroke", "arrow"} THEN "path"
  ELSE IF obj.kind = "circle" THEN "ellipse"
  ELSE obj.kind

\* one turn of the loop over state.objects, for the object at index j
ExportObject(st, j, obj) ==
  IF obj.kind = "erase"
    THEN IF pathFromPoints(obj.points) # << >>
           THEN wrapWithEraseMask(st, j, pathFromPoints(obj.points), obj.size)
           ELSE st
  ELSE IF obj.kind = "stroke" /\ pathFromPoints(obj.points) = << >>
    THEN st
  ELSE IF obj.kind \in {"stroke", "text", "line", "arrow", "rect", "circle"}
    THEN [st EXCEPT !.currentLayer = Append(@, [tag |-> ElementTag(obj), of |-> j])]
  ELSE st

RECURSIVE ExportLoop(_, _, _)
ExportLoop(objs, j, st) ==
  IF j >= Len(objs) THEN st
  ELSE ExportLoop(objs, j + 1, ExportObject(st, j, objs[j + 1]))

\* the document exportSVG() writes: the masks, whether the background image
\* and the overlay are drawn (both outside the ink markup), and the ink markup
ExportDoc ==
  LET st == ExportLoop(objects, 0, ExportStart) IN
    [defs |-> st.defs,
     bgMarkup |-> bg.src # "",
     svgMarkup |-> svg.src # "" /\ svgLayer # "",
     inkMarkup |-> st.pastLayer \o st.currentLayer,
     \* the children of <g transform="cam">, in the order of the template: the
     \* <image> of the background (of = -1), the group of the overlay
     \* (of = -2), the ink markup
     body |-> (IF bg.src # "" THEN << [tag |-> "image", of |-> -1] >> ELSE << >>)
              \o (IF svg.src # "" /\ svgLayer # ""
                    THEN << [tag |-> "overlay", of |-> -2] >> ELSE << >>)
              \o st.pastLayer \o st.currentLayer]

\* exportSvgBtn
exportSVG ==
  /\ exported' = ExportDoc
  /\ ev' = SimpleEvent("export", FALSE)
  /\ UNCHANGED << tool, title, objects, selectionIndex, uiHandles, gesture, spacePanning,
                  boards >>
  /\ KeepCamera /\ KeepStyle /\ KeepOverlay /\ KeepBg /\ KeepHistory

\* ------------------------------------------------------------------------
\* The program
\* ------------------------------------------------------------------------
\* no action on record
NoHist ==
  [act |-> "", pre |-> << >>, post |-> << >>, stage |-> "none", cleared |-> FALSE,
   preSvg |-> Null, preBg |-> Null, saved |-> Null]

\* Documents a session can hold when it is observed: drawn with the shape,
\* pen and text tools and, for the turned rectangle, a rotate gesture.
RectA == [kind |-> "rect", color |-> "#111111", size |-> 5,
          x1 |-> 40, y1 |-> 60, x2 |-> 100, y2 |-> 100, rot |-> 0]
RectTurned == [RectA EXCEPT !.rot = 30]
LineA == [RectA EXCEPT !.kind = "line"]
StrokeA == [kind |-> "stroke", color |-> "#111111", size |-> 5,
            points |-> << Pt(40, 60), Pt(100, 100), Pt(70, 34) >>]
TextA == [kind |-> "text", x |-> 40, y |-> 60, text |-> "Hi", color |-> "#111111",
          fontSize |-> 20, rot |-> 0]
InitDocs == { << RectA >>, << RectTurned >>, << LineA >>, << StrokeA >>, << TextA >> }

\* the snapshot of a document with the default style, camera and title
DocSnap(tl, objs) ==
  [tool |-> tl, color |-> "#111111", size |-> 5, zoom |-> FX, panX |-> 0, panY |-> 0,
   title |-> "", bg |-> DefaultBg, objects |-> objs]

\* a state with the default style, camera, title and background, no gesture
\* and the overlay sv attached
StartState(tl, objs, sel, u, sv, bds, e, h) ==
  /\ tool = tl /\ color = "#111111" /\ size = 5
  /\ zoom = FX /\ panX = 0 /\ panY = 0
  /\ title = ""
  /\ svg = sv
  /\ bg = DefaultBg
  /\ objects = objs
  /\ undo = u /\ redo = << >>
  /\ selectionIndex = sel
  /\ uiHandles = computeHandles(tl, sel, objs, FX, 0, 0)
  /\ gesture = ResetGesture
  /\ spacePanning = FALSE
  /\ svgNodes = IF sv.src = "" THEN << >> ELSE HiddenNodes(sv.src)
  /\ svgLayer = sv.src
  /\ bgImgSrc = ""
  /\ boards = JSONstringify(bds)
  /\ exported = Null
  /\ ev = e
  /\ ops = 0
  /\ hist = h

\* the state after construction and, for a tool other than the pen, after the
\* hotkey of that tool
Blank(tl) ==
  StartState(tl, << >>, -1, << >>, DefaultSvg, [n \in {} |-> Null],
             IF tl = "pen" THEN SimpleEvent("init", FALSE)
             ELSE Event("settool", 0, 0, 0, FALSE, FALSE, tl, FALSE),
             NoHist)

\* the state of a session that saved the document objs as board "b1", loaded
\* it (which empties both stacks), and clicked on its first object with the
\* select tool: the object is selected and the click left one undo entry
Populated(objs) ==
  StartState("select", objs, 0, << JSONstringify(DocSnap("select", objs)) >>, DefaultSvg,
             [n \in {"b1"} |-> [v |-> 7] @@ DocSnap("select", objs)],
             Event("pointerup", 1, 0, 0, FALSE, FALSE, "", FALSE),
             [NoHist EXCEPT !.act = "selMove", !.pre = objs, !.post = objs,
                            !.stage = "acted", !.preSvg = DefaultSvg, !.preBg = DefaultBg,
                            !.saved = [objects |-> objs, bg |-> DefaultBg, svg |-> DefaultSvg]])

\* the state after construction and the load of the overlay file "svgA"
WithOverlay ==
  StartState("pen", << >>, -1, << JSONstringify(DocSnap("pen", << >>)) >>,
             LoadedSvg("svgA", FX, 0, 0), [n \in {} |-> Null],
             Event("svgload", 0, 0, 0, FALSE, FALSE, "svgA", TRUE),
             [NoHist EXCEPT !.act = "svgload", !.stage = "acted",
                            !.preSvg = DefaultSvg, !.preBg = DefaultBg])

Init == (\E tl \in Tools : Blank(tl)) \/ (\E objs \in InitDocs : Populated(objs))

\* The budget of one behaviour: at most MaxOps operations that call pushUndo
\* or start a pan (a pan moves the camera by an amount that adds up).
Counted == ev'.pushed \/ (ev'.op = "pointerdown" /\ gesture'.mode = "pan")

\* History of the last action, kept beside the program's state:
\*   act   what the last operation that called pushUndo was,
\*   pre   the object list just before it, post the list since it,
\*   stage "acted", then "undone" by the next undo, then "redone" by the
\*         redo after that (and "undone" again by an undo of that redo); any
\*         other change of the stacks ends the record,
\*   cleared  the redo stack held entries when the operation began,
\*   preSvg, preBg  the overlay state and the background just before it,
\*   saved  the objects, background and overlay state when a board was last
\*          saved.
TrackAction ==
  IF ev'.pushed
  THEN [hist EXCEPT !.act = IF ev'.op = "pointerdown" THEN gesture'.mode ELSE ev'.op,
                    !.pre = objects, !.post = objects', !.stage = "acted",
                    !.cleared = redo # << >>, !.preSvg = svg, !.preBg = bg]
  ELSE IF ev'.op = "undo" /\ undo # << >> /\ hist.stage \in {"acted", "redone"}
  THEN [hist EXCEPT !.stage = "undone"]
  ELSE IF ev'.op = "redo" /\ redo # << >> /\ hist.stage = "undone"
  THEN [hist EXCEPT !.stage = "redone"]
  ELSE IF undo' = undo /\ redo' = redo /\ hist.stage = "acted"
  THEN [hist EXCEPT !.post = objects']
  ELSE IF undo' = undo /\ redo' = redo
  THEN hist
  ELSE [NoHist EXCEPT !.saved = hist.saved]
Track ==
  hist' = [TrackAction EXCEPT !.saved =
             IF ev'.op = "saveboard" THEN [objects |-> objects, bg |-> bg, svg |-> svg]
             ELSE hist.saved]

Budget ==
  /\ IF Counted THEN ops < MaxOps /\ ops' = ops + 1 ELSE ops' = ops
  /\ Track

\* ---- the drawing session: one pointer, the tool hotkeys, delete, clear,
\* ---- undo and redo
HotTools == {"select", "pen"}
PointerDown == \E p \in ScreenPts, text \in PromptTexts :
                  onPointerDown(1, p[1], p[2], text) /\ Budget
PointerMove == \E p \in ScreenPts, shift \in BOOLEAN :
                  onPointerMove(1, p[1], p[2], shift, FALSE) /\ Budget
PointerUp == onPointerUp(1) /\ Budget
ChooseTool == \E t \in HotTools : SetTool(t) /\ Budget
Delete == KeyDelete /\ Budget
Undo == KeyUndo /\ Budget
Redo == KeyRedo /\ Budget
Clear == clearBtn /\ Budget

Next ==
  \/ PointerDown \/ PointerMove \/ PointerUp
  \/ ChooseTool \/ Delete \/ Undo \/ Redo \/ Clear

Spec == Init /\ [][Next]_vars

\* ---- two pointers on the canvas, with the space key
InitMulti == (\E tl \in {"pen", "rect"} : Blank(tl)) \/ Populated(<< RectA >>)
TouchDown == \E pid \in Pids, p \in ScreenPts : onPointerDown(pid, p[1], p[2], "Hi") /\ Budget
TouchMove == \E pid \in Pids, p \in ScreenPts :
                onPointerMove(pid, p[1], p[2], FALSE, FALSE) /\ Budget
TouchUp == \E pid \in Pids : onPointerUp(pid) /\ Budget
Space == \E down \in BOOLEAN : KeySpace(down) /\ Budget

NextMulti == TouchDown \/ TouchMove \/ TouchUp \/ Space

SpecMulti == InitMulti /\ [][NextMulti]_vars

\* ---- the overlay, the background, the title and the stored boards
Reveal == \E d \in {-5, -1, 1, 5} : KeyReveal(svg.step + d) /\ Budget
ApplyTitle == \E t \in Titles : applyTitleBtn(t) /\ Budget
BgLoad == \E img \in Images : bgLoaded(img) /\ Budget
BgClear == clearBgBtn /\ Budget
SvgLoad == \E text \in SvgTexts : svgLoaded(text) /\ Budget
SvgSetAll == \E all \in BOOLEAN : svgSetAll(all) /\ Budget
SvgClear == svgClearBtn /\ Budget
NewBoard == newBoardBtn /\ Budget
SaveBoard == \E name \in BoardNames : saveBoardBtn(name) /\ Budget
LoadBoard == \E name \in BoardNames : loadBoardBtn(name) /\ Budget

NextBoard ==
  \/ Reveal \/ ApplyTitle \/ BgLoad \/ BgClear
  \/ SvgLoad \/ SvgSetAll \/ SvgClear
  \/ NewBoard \/ SaveBoard \/ LoadBoard
  \/ Undo \/ Redo

InitBoard == Init \/ WithOverlay

SpecBoard == InitBoard /\ [][NextBoard]_vars

\* ---- every operation that calls pushUndo, with undo and redo
NextPush ==
  \/ PointerDown \/ PointerUp \/ ChooseTool \/ Delete \/ Clear
  \/ ApplyTitle \/ BgLoad \/ BgClear \/ SvgLoad \/ SvgSetAll \/ SvgClear \/ NewBoard
  \/ Undo \/ Redo

SpecPush == InitBoard /\ [][NextPush]_vars

\* ---- long histories: clear, undo and redo without a budget, from the blank
\* ---- board with the rectangle tool (clear switches to the pen, so the first
\* ---- undo entry differs from the later ones)
InitCap == Blank("rect")
CapClear == clearBtn /\ UNCHANGED ops /\ Track
CapUndo == KeyUndo /\ UNCHANGED ops /\ Track
CapRedo == KeyRedo /\ UNCHANGED ops /\ Track

NextCap == CapClear \/ CapUndo \/ CapRedo

SpecCap == InitCap /\ [][NextCap]_vars

\* ---- selection gestures on a document of two objects, with the tool
\* ---- hotkeys, delete, clear, undo, redo and the load of the stored board
PairDocs == { << RectA, LineA >>, << LineA, RectTurned >> }
SelTools == {"select", "text"}
InitSel == \E objs \in PairDocs : Populated(objs)
SelDown == \E p \in ScreenPts, text \in PromptTexts :
              onPointerDown(1, p[1], p[2], text) /\ Budget
SelMove == \E p \in ScreenPts : onPointerMove(1, p[1], p[2], FALSE, FALSE) /\ Budget
SelTool == \E t \in SelTools : SetTool(t) /\ Budget

NextSel ==
  \/ SelDown \/ SelMove \/ PointerUp \/ SelTool \/ Delete
  \/ Undo \/ Redo \/ Clear \/ LoadBoard

SpecSel == InitSel /\ [][NextSel]_vars

\* ---- a drag with a delete in the middle of it: delete is not counted in
\* ---- the budget here (it can only shorten the document)
DragDelete == KeyDelete /\ UNCHANGED ops /\ Track

NextDrag == SelDown \/ SelMove \/ PointerUp \/ DragDelete \/ Undo \/ Redo

SpecDrag == InitSel /\ [][NextDrag]_vars

\* ---- export: documents of up to MaxObjs objects, as loaded from a board
PenA == [kind |-> "stroke", color |-> "#111111", size |-> 5,
         points |-> << Pt(40, 60), Pt(100, 100) >>]
PenDot == [PenA EXCEPT !.points = << Pt(40, 60) >>]
EraseA == [kind |-> "erase", size |-> 11, points |-> << Pt(40, 100), Pt(100, 60) >>]
EraseDot == [EraseA EXCEPT !.points = << Pt(70, 34) >>]
ExportObjs == { PenA, PenDot, EraseA, EraseDot, RectA, TextA }
ExportDocs == UNION { [1..n -> ExportObjs] : n \in 0..MaxObjs }

\* the state after the board "b1", holding the document objs, was loaded
Loaded(objs) ==
  StartState("pen", objs, -1, << >>, DefaultSvg,
             [n \in {"b1"} |-> [v |-> 7] @@ DocSnap("pen", objs)],
             Event("loadboard", 0, 0, 0, FALSE, FALSE, "b1", FALSE),
             [NoHist EXCEPT !.saved = [objects |-> objs, bg |-> DefaultBg, svg |-> DefaultSvg]])

InitExport == \E objs \in ExportDocs : Loaded(objs)
Export == exportSVG /\ Budget

NextExport == Export

SpecExport == InitExport /\ [][NextExport]_vars

\* ---- the bgMove / bgScale / bgRotate tools, on documents with and without
\* ---- a selection and with and without a background image
\* the state s0 describes, after the image "imgA" was then chosen as background
AfterBgLoad(tl, objs, sel, u, bds, saved) ==
  /\ tool = tl /\ color = "#111111" /\ size = 5
  /\ zoom = FX /\ panX = 0 /\ panY = 0
  /\ title = ""
  /\ svg = DefaultSvg
  /\ bg = FittedBg(CHOOSE img \in Images : img.src = "imgA", FX, 0, 0)
  /\ objects = objs
  /\ undo = Append(u, JSONstringify(DocSnap(tl, objs))) /\ redo = << >>
  /\ selectionIndex = sel
  /\ uiHandles = computeHandles(tl, sel, objs, FX, 0, 0)
  /\ gesture = ResetGesture
  /\ spacePanning = FALSE
  /\ svgNodes = << >>
  /\ svgLayer = ""
  /\ bgImgSrc = "imgA"
  /\ boards = JSONstringify(bds)
  /\ exported = Null
  /\ ev = Event("bgload", 0, 0, 0, FALSE, FALSE, "imgA", TRUE)
  /\ ops = 0
  /\ hist = [NoHist EXCEPT !.act = "bgload", !.pre = objs, !.post = objs, !.stage = "acted",
                           !.preSvg = DefaultSvg, !.preBg = DefaultBg, !.saved = saved]
BgDocs == { << RectA >>, << StrokeA >> }
\* a board was loaded (nothing selected) or its first object clicked
\* (selected), and then, or not, the background image was chosen
InitBgTool ==
  \E objs \in BgDocs :
    \/ Loaded(objs)
    \/ Populated(objs)
    \/ AfterBgLoad("pen", objs, -1, << >>,
                   [n \in {"b1"} |-> [v |-> 7] @@ DocSnap("pen", objs)],
                   [objects |-> objs, bg |-> DefaultBg, svg |-> DefaultSvg])
    \/ AfterBgLoad("select", objs, 0, << JSONstringify(DocSnap("select", objs)) >>,
                   [n \in {"b1"} |-> [v |-> 7] @@ DocSnap("select", objs)],
                   [objects |-> objs, bg |-> DefaultBg, svg |-> DefaultSvg])
BgKey == \E t \in BgTools : SetTool(t) /\ Budget
\* one pointer: a press only when no gesture is in progress
BgDown == /\ ~gesture.active
          /\ \E p \in ScreenPts : onPointerDown(1, p[1], p[2], "Hi") /\ Budget
BgDrag == \E p \in ScreenPts : onPointerMove(1, p[1], p[2], FALSE, FALSE) /\ Budget

NextBgTool == BgKey \/ BgDown \/ BgDrag \/ PointerUp

SpecBgTool == InitBgTool /\ [][NextBgTool]_vars

\* ------------------------------------------------------------------------
\* Properties
\* ------------------------------------------------------------------------
SelModes == {"selMove", "selScale", "selRotate"}
SelKind(mode) ==
  IF mode = "selMove" THEN "move" ELSE IF mode = "selScale" THEN "scale" ELSE "rotate"

\* C1: an undo right after a mutating action (draw gesture, text placement,
\* selection move / scale / rotate, delete, clear) restores the object list
\* of just before the action, and the redo right after that undo restores the
\* object list of just after the action.
C1_UndoRedoRoundTrip ==
  /\ hist.stage = "undone" => objects = hist.pre
  /\ hist.stage = "redone" => objects = hist.post
C1_Witness ==
  /\ ev.op = "redo" /\ hist.stage = "redone" /\ hist.act = "selRotate"
  /\ hist.pre # hist.post /\ objects = hist.post

\* C2: while the gesture of one pointer is active, a pointer-down,
\* pointer-move or pointer-up of another pointer changes neither the gesture
\* (pointer id, mode, snapshot fields, activity) nor the undo stack nor any
\* object.
C2_SecondPointerIgnored ==
  [][ ( /\ gesture.active
        /\ ev'.op \in {"pointerdown", "pointermove", "pointerup"}
        /\ ev'.pid # gesture.pointerId )
      => UNCHANGED << gesture, undo, objects >> ]_vars

\* C3: in a selMove, selScale or selRotate gesture, after any number of
\* pointer-moves the selected object is what one pointer-move at the last
\* pointer position, with the last modifier keys, makes of the snapshot taken
\* from the object list at the start of the gesture.
C3_SnapshotPurity ==
  ( /\ ev.op = "pointermove" /\ gesture.active /\ gesture.mode \in SelModes
    /\ hist.stage = "acted" /\ hist.act = gesture.mode
    /\ gesture.selIndex >= 0 /\ gesture.selIndex < Len(hist.pre) )
  => /\ gesture.selIndex < Len(objects)
     /\ objects[gesture.selIndex + 1] =
          SelResult(BeginSel(gesture, SelKind(gesture.mode), gesture.selIndex, hist.pre,
                             gesture.startWorld),
                    screenToWorld(ev.sx, ev.sy, zoom, panX, panY), ev.shift)
C3_Witness ==
  /\ ev.op = "pointermove" /\ gesture.active /\ gesture.mode = "selScale"
  /\ hist.stage = "acted" /\ hist.act = "selScale" /\ ev.shift
  /\ objects[gesture.selIndex + 1] # hist.pre[gesture.selIndex + 1]

\* C4: an undo or redo leaves no gesture in progress, and every pointer-move
\* that follows an undo or redo which interrupted a gesture, up to the next
\* pointer-down, leaves the objects, the background and the camera unchanged.
C4_UndoResetsGesture ==
  /\ [](ev.op \in {"undo", "redo"} => ~gesture.active /\ gesture.mode = "none")
  /\ [][ev'.op = "pointermove" /\ ev'.arg = "stale"
         => UNCHANGED << objects, bg, zoom, panX, panY >>]_vars
C4_Witness ==
  /\ ev.op = "pointermove" /\ ev.arg = "stale" /\ hist.stage = "undone"
  /\ hist.act = "selMove" /\ hist.pre # hist.post /\ objects = hist.pre

\* the indices of the objects whose markup is somewhere in nodes
RECURSIVE MarkupOf(_)
MarkupOf(nodes) ==
  UNION { IF nodes[k].tag = "g" THEN MarkupOf(nodes[k].children) ELSE {nodes[k].of}
          : k \in 1..Len(nodes) }
\* the mask groups somewhere in nodes
RECURSIVE MaskGroups(_)
MaskGroups(nodes) ==
  UNION { IF nodes[k].tag = "g" THEN {nodes[k]} \cup MaskGroups(nodes[k].children) ELSE {}
          : k \in 1..Len(nodes) }
\* the markup of object i is nested inside the mask group of erase object j
InsideMask(doc, i, j) == \E g \in MaskGroups(doc.inkMarkup) : g.of = j /\ i \in MarkupOf(g.children)
Masking(objs, j) == objs[j + 1].kind = "erase" /\ Len(objs[j + 1].points) >= 2
HasMarkup(obj) == obj.kind # "erase" /\ (obj.kind = "stroke" => Len(obj.points) >= 2)

\* C5 as stated: in the exported document, for every non-erase object i and
\* every erase object j of at least two points, the markup of i is nested
\* inside the mask group of j if and only if i < j.
C5_EraseMaskOrder ==
  ev.op = "export" =>
    \A i, j \in 0..(Len(objects) - 1) :
      (objects[i + 1].kind # "erase" /\ Masking(objects, j))
      => (InsideMask(exported, i, j) <=> i < j)

\* C5, amended: the same for every non-erase object that has markup in the
\* export (a stroke of fewer than two points has none); every such object
\* has its markup in the exported document exactly once.
C5_EraseMaskOrderDrawn ==
  ev.op = "export" =>
    \A i \in 0..(Len(objects) - 1) :
      /\ i \in MarkupOf(exported.inkMarkup) <=> HasMarkup(objects[i + 1])
      /\ \A j \in 0..(Len(objects) - 1) :
           (HasMarkup(objects[i + 1]) /\ Masking(objects, j))
           => (InsideMask(exported, i, j) <=> i < j)
C5_Witness ==
  /\ ev.op = "export" /\ Len(objects) = 3
  /\ HasMarkup(objects[1]) /\ Masking(objects, 1) /\ HasMarkup(objects[3])
  /\ InsideMask(exported, 0, 1) /\ ~InsideMask(exported, 2, 1)

\* C6: pointer-move and pointer-up never change the undo stack or the redo
\* stack, and one pointer-down adds at most one undo entry.
C6_PushOnlyAtStart ==
  [][ /\ ev'.op \in {"pointermove", "pointerup"} => UNCHANGED << undo, redo >>
      /\ ev'.op = "pointerdown" => Len(undo') <= Len(undo) + 1 ]_vars
C6_Witness ==
  /\ ev.op = "pointerup" /\ hist.stage = "acted" /\ hist.act = "drawStroke"
  /\ Len(undo) = 1 /\ hist.pre # hist.post

\* C7: every operation that calls pushUndo leaves the redo stack empty when
\* it completes.
C7_PushClearsRedo == ev.pushed => redo = << >>
C7_Witness == ev.pushed /\ hist.cleared /\ redo = << >> /\ ev.op = "title"

\* C8: the undo stack never holds more than 120 entries, whatever the
\* interleaving of pushUndo, undo and redo, and a pushUndo on a full stack
\* drops the oldest entry.
C8_UndoBounded ==
  /\ [](Len(undo) <= UndoLimit)
  /\ [][ev'.pushed /\ Len(undo) = UndoLimit
         => undo' = Append(Tail1(undo), Last(undo'))]_vars
C8_Witness ==
  /\ ev.pushed /\ Len(undo) = UndoLimit
  /\ JSONparse(undo[1]).tool = "pen" /\ JSONparse(undo[UndoLimit]).tool = "pen"

\* C9: after an undo, the overlay state (source text, position, scale,
\* rotation, view-box, reveal cursor, node total) and the background are what
\* they were when the undone entry was pushed.
C9_UndoRestoresOverlay ==
  (ev.op = "undo" /\ hist.stage = "undone") => svg = hist.preSvg /\ bg = hist.preBg

\* C10: after a board is saved and then loaded, the objects, the background,
\* the overlay source text and the overlay reveal cursor are what they were
\* when the board was saved.
C10_SaveLoadRoundTrip ==
  (ev.op = "loadboard" /\ hist.saved # Null)
  => /\ objects = hist.saved.objects
     /\ bg = hist.saved.bg
     /\ svg.src = hist.saved.svg.src
     /\ svg.step = hist.saved.svg.step

\* C11: the selection is always none (-1) or an index into the object list,
\* and it is none right after the selected object is deleted, after clear,
\* and after a snapshot is applied (an undo or redo that had an entry to
\* apply, a board load).
C11_SelectionValid ==
  /\ [](selectionIndex = -1 \/ (selectionIndex >= 0 /\ selectionIndex < Len(objects)))
  /\ [][ /\ (ev'.op = "delete" /\ selectionIndex >= 0) => selectionIndex' = -1
         /\ ev'.op = "clear" => selectionIndex' = -1
         /\ (ev'.op = "undo" /\ undo # << >>) => selectionIndex' = -1
         /\ (ev'.op = "redo" /\ redo # << >>) => selectionIndex' = -1
         /\ ev'.op = "loadboard" => selectionIndex' = -1 ]_vars
C11_Witness ==
  /\ ev.op = "undo" /\ hist.stage = "undone" /\ hist.act = "delete"
  /\ Len(hist.pre) = 2 /\ Len(hist.post) = 1 /\ objects = hist.pre
  /\ selectionIndex = -1

\* C12: the object list has no gaps (every index from 0 to length-1 holds an
\* object), also after the pointer-moves of a selection gesture whose object
\* was deleted during the drag, and deleting the object at index k moves
\* every later object down by one.
C12_NoGaps ==
  /\ [](/\ DOMAIN objects = 1..Len(objects)
        /\ \A k \in 1..Len(objects) : "kind" \in DOMAIN objects[k])
  /\ [][ (ev'.op = "delete" /\ selectionIndex >= 0)
         => objects' = [k \in 1..(Len(objects) - 1) |->
                          IF k <= selectionIndex THEN objects[k] ELSE objects[k + 1]] ]_vars
C12_Witness ==
  /\ ev.op = "pointermove" /\ gesture.active /\ gesture.mode \in SelModes
  /\ hist.act = "delete" /\ hist.stage = "acted" /\ Len(hist.pre) = 2
  /\ gesture.selIndex = 0 /\ Len(objects) = 1
  /\ objects # Splice1(hist.pre, 0)

\* C13: a pointer-up (or pointer-cancel) while a gesture is active returns
\* the gesture to mode "none", inactive, with its start, snapshot and target
\* fields cleared, and leaves the objects, the background, the camera, the
\* selection, the undo stack and the redo stack as they were.
C13_PointerUpReleases ==
  [][ (ev'.op = "pointerup" /\ gesture.active)
      => /\ ~gesture'.active /\ gesture'.mode = "none" /\ gesture'.pointerId = 0
         /\ gesture'.startWorld = Null /\ gesture'.startScreen = Null
         /\ gesture'.lastWorld = Null /\ gesture'.lastScreen = Null
         /\ gesture'.activeObj = -1 /\ gesture'.selIndex = -1
         /\ gesture'.selStartObj = Null /\ gesture'.selAnchor = Null
         /\ gesture'.selStartVec = Null /\ gesture'.selStartAngle = 0
         /\ gesture'.bgStart = Null
         /\ UNCHANGED << objects, bg, zoom, panX, panY, selectionIndex, undo, redo >> ]_vars
C13_Witness ==
  /\ ev.op = "pointerup" /\ ~gesture.active /\ gesture.mode = "none"
  /\ hist.stage = "acted" /\ hist.act = "selScale" /\ hist.pre # hist.post
  /\ objects = hist.post /\ selectionIndex = 0 /\ Len(undo) = 2

\* C14: a pointer-down with the text tool, space not held, and a non-empty
\* answer to the prompt appends exactly one text object, placed at the world
\* point of the pointer and holding the answer, as the last object; selects
\* it; switches to the select tool; pushes exactly one undo entry; and leaves
\* no gesture active.
C14_TextPlaced ==
  [][ (ev'.op = "pointerdown" /\ ~spacePanning /\ tool = "text" /\ ev'.arg # "")
      => /\ Len(objects') = Len(objects) + 1
         /\ Front(objects') = objects
         /\ Last(objects').kind = "text"
         /\ Last(objects').text = ev'.arg
         /\ Pt(Last(objects').x, Last(objects').y)
              = screenToWorld(ev'.sx, ev'.sy, zoom, panX, panY)
         /\ selectionIndex' = Len(objects') - 1
         /\ tool' = "select"
         /\ Len(undo') = Len(undo) + 1 /\ Front(undo') = undo
         /\ ~gesture'.active /\ gesture'.mode = "none" ]_vars
C14_Witness ==
  /\ ev.op = "pointerdown" /\ ev.arg = "Hi" /\ ev.pushed
  /\ Len(objects) = 3 /\ Last(objects).kind = "text" /\ selectionIndex = 2
  /\ tool = "select" /\ hist.act = "none" /\ Len(hist.pre) = 2

\* C15: a pointer-down with the text tool and an empty or cancelled prompt
\* creates no object, pushes no undo entry, leaves the redo stack, the
\* selection and the tool unchanged, and leaves no gesture active.
C15_TextAborted ==
  [][ (ev'.op = "pointerdown" /\ ~spacePanning /\ tool = "text" /\ ev'.arg = "")
      => /\ UNCHANGED << objects, undo, redo, selectionIndex, tool >>
         /\ ~gesture'.active /\ gesture'.mode = "none" ]_vars
C15_Witness ==
  /\ ev.op = "pointerdown" /\ tool = "text" /\ ev.arg = "" /\ ~ev.pushed
  /\ Len(objects) = 2 /\ redo # << >> /\ ~gesture.active

\* the gesture mode a handle of the given kind starts
HandleMode(kind) ==
  IF kind = "rotate" THEN "selRotate" ELSE IF kind = "scale" THEN "selScale" ELSE "selMove"

\* C16: a pointer-down with the select tool tests the handles of the current
\* selection first (the handles as the last redraw drew them, which is the
\* geometry the code tests). When a handle is hit the selection stays as it is, even
\* with another object under the pointer, and the gesture enters selRotate,
\* selScale or selMove with a copy of the selected object as start snapshot.
\* Only when no handle is hit, the selection becomes the topmost object under
\* the pointer (the gesture enters selMove on it) or none (the gesture enters
\* "select").
C16_HandlesFirst ==
  [][ (ev'.op = "pointerdown" /\ ~spacePanning /\ tool = "select")
      => LET h == hitHandle(uiHandles, ev'.sx, ev'.sy)
             w == screenToWorld(ev'.sx, ev'.sy, zoom, panX, panY)
             hit == findHit(objects, w.x, w.y)
         IN IF h # "none"
              THEN /\ selectionIndex' = selectionIndex
                   /\ gesture'.active /\ gesture'.mode = HandleMode(h)
                   /\ gesture'.selIndex = selectionIndex
                   /\ gesture'.selStartObj = objects[selectionIndex + 1]
              ELSE /\ selectionIndex' = hit
                   /\ gesture'.active
                   /\ IF hit >= 0
                        THEN /\ gesture'.mode = "selMove" /\ gesture'.selIndex = hit
                             /\ gesture'.selStartObj = objects[hit + 1]
                        ELSE gesture'.mode = "select" ]_vars
C16_Witness ==
  /\ ev.op = "pointerdown" /\ tool = "select" /\ gesture.mode = "selScale"
  /\ selectionIndex = 0 /\ gesture.selIndex = 0 /\ objects = hist.pre
  /\ findHit(objects, screenToWorld(ev.sx, ev.sy, zoom, panX, panY).x,
              screenToWorld(ev.sx, ev.sy, zoom, panX, panY).y) = 1

\* the selection mode a bg tool starts when an object is selected
ToolSelMode(tl) ==
  IF tl = "bgMove" THEN "selMove" ELSE IF tl = "bgScale" THEN "selScale" ELSE "selRotate"

\* C17: with the tool bgMove, bgScale or bgRotate, a press with an object
\* selected starts selMove, selScale or selRotate on that object, and the
\* drag changes that object only and never the background; a press with
\* nothing selected starts no selection mode, starts the background mode of
\* the tool when an image is loaded, and the drag changes the background
\* only and never an object.
C17_BgToolsTarget ==
  [][ /\ (ev'.op = "pointerdown" /\ ~spacePanning /\ tool \in BgTools)
         => /\ UNCHANGED << objects, bg, selectionIndex >>
            /\ IF selectionIndex >= 0
                 THEN /\ gesture'.mode = ToolSelMode(tool)
                      /\ gesture'.selIndex = selectionIndex
                      /\ gesture'.selStartObj = objects[selectionIndex + 1]
                 ELSE /\ gesture'.mode \notin SelModes
                      /\ bg.src # "" => gesture'.mode = tool /\ gesture'.bgStart = bg
      /\ (ev'.op = "pointermove" /\ tool \in BgTools /\ gesture.active
            /\ gesture.mode \in SelModes)
         => /\ bg' = bg
            /\ \A k \in 1..Len(objects) : k # gesture.selIndex + 1 => objects'[k] = objects[k]
      /\ (ev'.op = "pointermove" /\ tool \in BgTools /\ gesture.active
            /\ gesture.mode \in BgTools)
         => objects' = objects /\ selectionIndex = -1 ]_vars
C17_Witness ==
  /\ ev.op = "pointermove" /\ tool = "bgScale" /\ gesture.active
  /\ gesture.mode = "selScale" /\ selectionIndex = 0
  /\ bg.src = "imgA" /\ bg = hist.preBg
  /\ hist.act = "selScale" /\ hist.stage = "acted" /\ objects # hist.pre

\* ---- the space key held over each family of tools
PanTools == {"text", "select", "rect", "eraser", "bgMove"}
InitPan == (\E tl \in PanTools : Blank(tl)) \/ Populated(<< RectA >>)
PanKey == \E t \in PanTools : SetTool(t) /\ Budget
PanDown == \E p \in ScreenPts, text \in PromptTexts : onPointerDown(1, p[1], p[2], text) /\ Budget
PanMove == \E p \in ScreenPts : onPointerMove(1, p[1], p[2], FALSE, FALSE) /\ Budget

NextPan == Space \/ PanKey \/ PanDown \/ PanMove \/ PointerUp

SpecPan == InitPan /\ [][NextPan]_vars

\* ---- the camera: wheel zoom, space-pan, new board, stored boards, undo and
\* ---- redo.  A behaviour holds at most MaxCamOps wheel steps, new boards
\* ---- and pan starts.
MaxCamOps == 2
WheelDirs == {-1, 0, 1}
DefaultCam == [zoom |-> FX, panX |-> 0, panY |-> 0]
RECURSIVE CamAfter(_, _, _, _)
\* the camera after n wheel steps of direction dir at the anchor a, from the
\* camera c0
CamAfter(c0, n, dir, a) ==
  IF n = 0 THEN c0
  ELSE LET c == CamAfter(c0, n - 1, dir, a)
           req == WheelRequest(c.zoom, dir)
       IN [zoom |-> clamp(req, ZoomMin, ZoomMax),
           panX |-> RDiv(ZoomPan(a[1], c.panX, c.zoom, req).num, c.zoom),
           panY |-> RDiv(ZoomPan(a[2], c.panY, c.zoom, req).num, c.zoom)]
\* the blank board with the camera c, which wheel steps of direction dir at
\* the anchor a have set
Wheeled(c, dir, a) ==
  /\ tool = "pen" /\ color = "#111111" /\ size = 5
  /\ zoom = c.zoom /\ panX = c.panX /\ panY = c.panY
  /\ title = ""
  /\ svg = DefaultSvg
  /\ bg = DefaultBg
  /\ objects = << >>
  /\ undo = << >> /\ redo = << >>
  /\ selectionIndex = -1
  /\ uiHandles = NoHandles
  /\ gesture = ResetGesture
  /\ spacePanning = FALSE
  /\ svgNodes = << >>
  /\ svgLayer = ""
  /\ bgImgSrc = ""
  /\ boards = JSONstringify([n0 \in {} |-> Null])
  /\ exported = Null
  /\ ev = Event("wheel", 0, a[1], a[2], FALSE, FALSE, IF dir > 0 THEN "out" ELSE "in", FALSE)
  /\ ops = 0
  /\ hist = NoHist
\* the blank board; the board after 13 wheel steps out (zoom 0.254) and after
\* 18 steps in (zoom 5.558), so that one more step is clamped.  The steps
\* are taken in two runs.
WheelAnchor == << 100, 100 >>
InitCam ==
  \/ Blank("pen")
  \/ \E m \in {CamAfter(DefaultCam, 7, 1, WheelAnchor)} :
       \E c \in {CamAfter(m, 6, 1, WheelAnchor)} : Wheeled(c, 1, WheelAnchor)
  \/ \E m \in {CamAfter(DefaultCam, 9, -1, WheelAnchor)} :
       \E c \in {CamAfter(m, 9, -1, WheelAnchor)} : Wheeled(c, -1, WheelAnchor)

CamCount == ops < MaxCamOps /\ ops' = ops + 1 /\ Track
CamWheel == \E p \in ScreenPts, dir \in WheelDirs : onWheel(p[1], p[2], dir) /\ CamCount
CamNew == newBoardBtn /\ CamCount
CamPanDown == /\ spacePanning /\ ~gesture.active
              /\ \E p \in ScreenPts : onPointerDown(1, p[1], p[2], "Hi") /\ CamCount
CamMove == \E p \in ScreenPts : onPointerMove(1, p[1], p[2], FALSE, FALSE) /\ UNCHANGED ops /\ Track
CamSpace == \E down \in BOOLEAN : KeySpace(down) /\ UNCHANGED ops /\ Track
CamUp == onPointerUp(1) /\ UNCHANGED ops /\ Track
CamUndo == KeyUndo /\ UNCHANGED ops /\ Track
CamRedo == KeyRedo /\ UNCHANGED ops /\ Track
CamSave == \E name \in BoardNames : saveBoardBtn(name) /\ UNCHANGED ops /\ Track
CamLoad == \E name \in BoardNames : loadBoardBtn(name) /\ UNCHANGED ops /\ Track

NextCam ==
  \/ CamWheel \/ CamNew \/ CamPanDown \/ CamMove \/ CamSpace \/ CamUp
  \/ CamUndo \/ CamRedo \/ CamSave \/ CamLoad

SpecCam == InitCam /\ [][NextCam]_vars

\* ---- pan gestures on a zoomed camera, over documents with objects and,
\* ---- or not, a background image
NextPanZoom == CamWheel \/ CamPanDown \/ CamMove \/ CamSpace \/ CamUp

SpecPanZoom == InitBgTool /\ [][NextPanZoom]_vars

\* ---- scale gestures on one selected object: a rectangle, a rectangle of
\* ---- size zero (a click of the rect tool), a small square and a text turned
\* ---- by a quarter, a line, a short line and a stroke
Rect0 == [RectA EXCEPT !.x1 = 0, !.y1 = 0, !.x2 = 100, !.y2 = 50]
DotRect == [RectA EXCEPT !.x1 = 70, !.y1 = 80, !.x2 = 70, !.y2 = 80]
SquareTurned == [RectA EXCEPT !.x1 = 60, !.y1 = 70, !.x2 = 80, !.y2 = 90, !.rot = 90]
TextTurned == [TextA EXCEPT !.x = 46, !.y = 55, !.fontSize = 40, !.rot = 90]
SmallLine == [LineA EXCEPT !.x1 = 66, !.y1 = 76, !.x2 = 74, !.y2 = 84]
ScaleDocs == { << Rect0 >>, << DotRect >>, << SquareTurned >>, << TextTurned >>,
               << LineA >>, << SmallLine >>, << StrokeA >> }
\* pointer positions: on a corner handle of each document, the centre of the
\* small ones, one unit beside it, and far from it
ScalePts == { << 100, 50 >>, << 150, 75 >>, << 70, 80 >>, << 71, 80 >>, << 100, 100 >> }
InitScale == \E objs \in ScaleDocs : Populated(objs)
ScaleDown == \E p \in ScalePts : onPointerDown(1, p[1], p[2], "Hi") /\ Budget
ScaleMove == \E p \in ScalePts, shift \in BOOLEAN :
                onPointerMove(1, p[1], p[2], shift, FALSE) /\ Budget

NextScale == ScaleDown \/ ScaleMove \/ PointerUp \/ Undo

SpecScale == InitScale /\ [][NextScale]_vars

\* the last event was a pointer-move of a selScale gesture
ScaleMoved == ev.op = "pointermove" /\ gesture.active /\ MoveIsSelScale
\* the world point of the last pointer event
EvWorld == screenToWorld(ev.sx, ev.sy, zoom, panX, panY)
\* the object the gesture transforms
ScaledObj == objects[gesture.selIndex + 1]

\* ---- one shape drawn with each shape tool, with and without the snap
\* ---- modifier; the drags are 70 units and longer (or of length zero), so
\* ---- that an endpoint rounded to whole units keeps its direction to the degree
ShapeTools == {"line", "arrow", "rect", "circle"}
SnapStarts == { << 100, 100 >>, << 20, 90 >> }
\* from (100,100): drags of 44, 91, 34, -58 and -173 degrees
SnapPts == SnapStarts \cup { << 200, 197 >>, << 98, 200 >>, << 160, 140 >>, << 150, 20 >> }
InitSnap == \E tl \in ShapeTools : Blank(tl)
SnapDown == \E p \in SnapStarts : onPointerDown(1, p[1], p[2], "Hi") /\ Budget
SnapMove == \E p \in SnapPts, ctrl \in BOOLEAN :
               onPointerMove(1, p[1], p[2], FALSE, ctrl) /\ Budget

NextSnap == SnapDown \/ SnapMove \/ PointerUp

SpecSnap == InitSnap /\ [][NextSnap]_vars

\* the last event was a pointer-move of a drawShape gesture
ShapeMoved == ev.op = "pointermove" /\ gesture.active /\ MoveIsDrawShape
\* the shape being drawn
DrawnObj == objects[gesture.activeObj + 1]
SnapSet == { SnapsDeg[i] : i \in 1..Len(SnapsDeg) }

\* ---- picking with the select tool: documents of one segment object (a
\* ---- level line, a line of slope 4/3, a wide arrow, a stroke and an erase
\* ---- path of two segments) and documents of objects that overlap
HLine == [LineA EXCEPT !.y2 = 60]
Oblique == [LineA EXCEPT !.x2 = 70, !.y2 = 100]
WideArrow == [HLine EXCEPT !.kind = "arrow", !.size = 10]
Bend == [kind |-> "stroke", color |-> "#111111", size |-> 6,
         points |-> << Pt(40, 60), Pt(100, 60), Pt(100, 100) >>]
EraseBend == [Bend EXCEPT !.kind = "erase"]
SegDocs == { << HLine >>, << Oblique >>, << WideArrow >>, << Bend >>, << EraseBend >> }
StackDocs == { << RectA, LineA >>, << LineA, RectA >>, << HLine, RectA, TextA >>,
               << TextA, Bend, WideArrow >> }
\* pointer positions around the segments: at the tolerance, one unit beyond
\* it, on the objects and away from all of them
PickXs == {45, 65, 70, 75, 108, 109, 115, 130}
PickYs == {60, 68, 69, 75, 76, 80, 92, 130}
PickPts == { << x, y >> : x \in PickXs, y \in PickYs }
\* the state after the board "b1", holding the document objs, was loaded and
\* the select tool was chosen
Picking(objs) ==
  StartState("select", objs, -1, << >>, DefaultSvg,
             [n \in {"b1"} |-> [v |-> 7] @@ DocSnap("pen", objs)],
             Event("settool", 0, 0, 0, FALSE, FALSE, "select", FALSE),
             [NoHist EXCEPT !.saved = [objects |-> objs, bg |-> DefaultBg, svg |-> DefaultSvg]])
InitPick == \E objs \in SegDocs \cup StackDocs : Picking(objs)
PickDown == \E p \in PickPts : onPointerDown(1, p[1], p[2], "Hi") /\ Budget

NextPick == PickDown \/ PointerUp

SpecPick == InitPick /\ [][NextPick]_vars

\* the pointer-down at hand goes to the objects: the select tool is active
\* and no handle of the selection is under the pointer
PicksObject ==
  /\ ev'.op = "pointerdown" /\ tool = "select" /\ ~spacePanning
  /\ (selectionIndex < 0 \/ hitHandle(uiHandles, ev'.sx, ev'.sy) = "none")
\* the world point of the pointer-down at hand
PickWorld == screenToWorld(ev'.sx, ev'.sy, zoom, panX, panY)

\* the kind of object and the gesture mode of a drawing tool
ToolKind(tl) == IF tl = "pen" THEN "stroke" ELSE IF tl = "eraser" THEN "erase" ELSE tl
ToolDrawMode(tl) ==
  IF tl = "pen" THEN "drawStroke" ELSE IF tl = "eraser" THEN "drawErase" ELSE "drawShape"

\* C18: a pointer-down with a drawing tool (pen, eraser, line, rect, circle,
\* arrow), space not held, appends exactly one object of the kind of the
\* tool, starting at the world point of the pointer, at the end of the object
\* list; sets the selection to none; pushes exactly one undo entry; and
\* enters drawStroke, drawErase or drawShape.
C18_DrawStarts ==
  [][ (ev'.op = "pointerdown" /\ ~spacePanning /\ tool \in DrawTools)
      => LET w == screenToWorld(ev'.sx, ev'.sy, zoom, panX, panY)
             obj == Last(objects')
         IN /\ Len(objects') = Len(objects) + 1
            /\ Front(objects') = objects
            /\ obj.kind = ToolKind(tool)
            /\ IF tool \in {"pen", "eraser"} THEN obj.points = << w >>
               ELSE Pt(obj.x1, obj.y1) = w /\ Pt(obj.x2, obj.y2) = w
            /\ selectionIndex' = -1
            /\ Len(undo') = Len(undo) + 1 /\ Front(undo') = undo
            /\ gesture'.active /\ gesture'.mode = ToolDrawMode(tool) ]_vars
C18_Witness ==
  /\ ev.op = "pointerdown" /\ ev.pushed /\ tool = "eraser"
  /\ gesture.active /\ gesture.mode = "drawErase"
  /\ Len(objects) = 1 /\ objects[1].kind = "erase" /\ Len(objects[1].points) = 1
  /\ selectionIndex = -1 /\ Len(undo) = 1

\* C19: with the space key held, a pointer-down enters the pan gesture
\* whatever the tool is (text, select, a background tool, a drawing tool); it
\* adds no object, pushes no undo entry, leaves the redo stack, the selection
\* and the tool as they were.
C19_SpacePanFirst ==
  [][ (ev'.op = "pointerdown" /\ spacePanning)
      => /\ gesture'.active /\ gesture'.mode = "pan"
         /\ gesture'.pointerId = ev'.pid
         /\ ~ev'.pushed
         /\ UNCHANGED << objects, undo, redo, selectionIndex, tool >> ]_vars
C19_Witness ==
  /\ ev.op = "pointerdown" /\ spacePanning /\ tool = "text"
  /\ gesture.active /\ gesture.mode = "pan"
  /\ Len(objects) = 1 /\ selectionIndex = 0 /\ Len(undo) = 1 /\ ~ev.pushed

\* C20: the load of a file whose text has no svg root changes nothing: the
\* overlay, the objects, the background, the camera, the undo stack and the
\* redo stack are what they were before the load.
C20_InvalidSvgNoMutation ==
  [][ (ev'.op = "svgload" /\ ~SvgParse(ev'.arg).ok)
      => UNCHANGED << svg, svgNodes, svgLayer, objects, bg, bgImgSrc,
                      zoom, panX, panY, undo, redo >> ]_vars

\* C21: undo() with an empty undo stack and redo() with an empty redo stack
\* change nothing: objects, background, overlay, camera, tool, title, colour,
\* size, selection and both stacks are what they were; nothing is pushed onto
\* the opposite stack.
C21_EmptyStackNoOp ==
  [][ ((ev'.op = "undo" /\ undo = << >>) \/ (ev'.op = "redo" /\ redo = << >>))
      => UNCHANGED << objects, bg, svg, zoom, panX, panY, tool, title, color, size,
                      selectionIndex, undo, redo >> ]_vars
\* an undo arrived with both stacks empty (an undo that restores a snapshot
\* leaves an entry on the redo stack)
C21_Witness ==
  /\ ev.op = "undo" /\ undo = << >> /\ redo = << >> /\ tool = "select"

\* C22: Delete or Backspace with nothing selected changes nothing: the object
\* list is the same, no undo entry is pushed, the redo stack is not cleared.
C22_DeleteNothing ==
  [][ (ev'.op = "delete" /\ selectionIndex < 0)
      => /\ ~ev'.pushed
         /\ UNCHANGED << objects, undo, redo, selectionIndex >> ]_vars
C22_Witness ==
  /\ ev.op = "delete" /\ ~ev.pushed /\ selectionIndex = -1
  /\ redo # << >> /\ objects # << >>

\* C23: in every reachable state the zoom lies in [0.25, 6], whatever wheel
\* steps, pans, undos, redos, new boards and board loads came before.
C23_ZoomInRange == ZoomMin <= zoom /\ zoom <= ZoomMax
\* an undo brought back the smallest zoom, which a clamped wheel step had set
C23_Witness ==
  /\ ev.op = "undo" /\ zoom = ZoomMin /\ redo # << >>
  /\ hist.act = "newboard" /\ hist.stage = "undone"

RECURSIVE Gcd(_, _)
Gcd(a, b) == IF b = 0 THEN Abs(a) ELSE Gcd(b, a % Abs(b))
\* a fraction in lowest terms with a positive denominator
Lowest(num, den) ==
  LET g == Gcd(num, den)
      sg == IF den < 0 THEN -1 ELSE 1
  IN [num |-> sg * (num \div g), den |-> sg * (den \div g)]
\* the world coordinate (a - pan) / zoom of the screen coordinate a, exactly,
\* for the pan panNum / panDen and the zoom z / FX ; in units of 1/FX
WorldExact(a, panNum, panDen, z) == Lowest(a * panDen - panNum, panDen * z)
\* the zoom a wheel event asked for, from the zoom before it
WheelAsked(e, z) == WheelRequest(z, IF e.arg = "out" THEN 1 ELSE -1)

\* C24: a wheel step calls setZoomTo(z, p) and the world point under the
\* anchor p is the same before and after, also when the request z is outside
\* [0.25, 6] and is clamped.  The world point is taken in exact arithmetic
\* from the pan setZoomTo computes; the state stores that pan rounded to the
\* unit of the model (the program rounds it to a double).
C24_ZoomAnchor ==
  [][ ev'.op = "wheel"
      => LET req == WheelAsked(ev', zoom)
             px == ZoomPan(ev'.sx, panX, zoom, req)
             py == ZoomPan(ev'.sy, panY, zoom, req)
         IN /\ zoom' = clamp(req, ZoomMin, ZoomMax)
            /\ panX' = RDiv(px.num, px.den) /\ panY' = RDiv(py.num, py.den)
            /\ WorldExact(ev'.sx, px.num, px.den, zoom') = WorldExact(ev'.sx, panX, 1, zoom)
            /\ WorldExact(ev'.sy, py.num, py.den, zoom') = WorldExact(ev'.sy, panY, 1, zoom) ]_vars
\* a wheel step out at zoom 0.254 asked for 0.229 and was clamped to 0.25
C24_Witness ==
  /\ ev.op = "wheel" /\ ev.arg = "out" /\ zoom = ZoomMin /\ ops = 1
  /\ undo = << >> /\ ev.sx = 40 /\ panX # 75

\* the rectangle (0,0)-(100,50) is being scaled about its centre (50,25) by a
\* pointer that went from (100,50) to (150,75): the factor is 2 on both axes
ScaledTwice ==
  /\ ScaleMoved /\ gesture.selStartObj = Rect0 /\ gesture.selAnchor = Pt(50, 25)
  /\ gesture.startWorld = Pt(100, 50) /\ EvWorld = Pt(150, 75)

\* C25 as stated: the rectangle (0,0)-(100,50) scaled by 2 about its centre
\* (50,25) has the corners (-25,-25) and (125,75).
C25_ScaleTwiceStated ==
  ScaledTwice => ScaledObj = [Rect0 EXCEPT !.x1 = -25, !.y1 = -25, !.x2 = 125, !.y2 = 75]
\* C25: the rectangle (0,0)-(100,50) scaled by 2 about its centre (50,25) has
\* the corners (-50,-25) and (150,75), with and without Shift.
C25_ScaleTwice ==
  /\ scaleObjectXY(Rect0, 2 * FX, 2 * FX, 50, 25)
       = [Rect0 EXCEPT !.x1 = -50, !.y1 = -25, !.x2 = 150, !.y2 = 75]
  /\ ScaledTwice => ScaledObj = [Rect0 EXCEPT !.x1 = -50, !.y1 = -25, !.x2 = 150, !.y2 = 75]
C25_Witness == ScaledTwice /\ ev.shift /\ ScaledObj.x1 = -50 /\ ScaledObj.x2 = 150

\* |now - a| <= 20 * |before - a| : a coordinate scaled about a by a factor in
\* [-20, 20]
Within20(now, before, a) == Abs(now - a) <= 20 * Abs(before - a)

\* C26: in every selScale pointer-move the factor applied on each axis lies in
\* [-20, 20]: an object scaled about the anchor has every coordinate within
\* 20 times its start distance from the anchor; a turned rect or circle is at
\* most 20 times as wide and as high as at the start (or 1 unit, the least
\* size); a text has at most 20 times its start font size.
C26_FactorsClamped ==
  ScaleMoved =>
    LET o0 == gesture.selStartObj
        o == ScaledObj
        a == gesture.selAnchor
    IN IF o0.kind = "text" THEN o.fontSize <= Max2(6, 20 * o0.fontSize)
       ELSE IF o0.kind \in PointKinds
         THEN \A i \in 1..Len(o0.points) :
                /\ Within20(o.points[i].x, o0.points[i].x, a.x)
                /\ Within20(o.points[i].y, o0.points[i].y, a.y)
       ELSE IF o0.kind \in OwnRotKinds /\ RotOf(o0) # 0
         THEN /\ Abs(o.x2 - o.x1) <= Max2(1, 20 * Abs(o0.x2 - o0.x1)) + 1
              /\ Abs(o.y2 - o.y1) <= Max2(1, 20 * Abs(o0.y2 - o0.y1)) + 1
       ELSE /\ Within20(o.x1, o0.x1, a.x) /\ Within20(o.x2, o0.x2, a.x)
            /\ Within20(o.y1, o0.y1, a.y) /\ Within20(o.y2, o0.y2, a.y)

\* C27: in a selScale gesture whose start pointer is the anchor (the start
\* vector has length zero), or whose pointer is where it started (the drag
\* has length zero), the factors are 1 on both axes, with and without Shift:
\* the object is its start snapshot.
C27_DegenerateIdentity ==
  (ScaleMoved /\ (gesture.startWorld = gesture.selAnchor \/ EvWorld = gesture.startWorld))
    => ScaledObj = gesture.selStartObj

\* C28: while a line or an arrow is drawn with the snap modifier held, the
\* direction from its first to its second endpoint is a member of {0, +-30,
\* +-45, +-60, +-90, +-120, +-135, +-150, 180} degrees at the least angular
\* distance from the direction of the drag, and the segment is as long as the
\* drag (to the rounding of the endpoint); a drag of 44 degrees is stored at
\* 45 and one of 91 degrees at 90.  Without the modifier, and for a rect or a
\* circle, the second endpoint is the world point of the pointer.
C28_SnapDirection ==
  /\ snapAngleRad(44) = 45 /\ snapAngleRad(91) = 90
  /\ ShapeMoved =>
       LET o == DrawnObj
           dragDir == Atan2(EvWorld.y - o.y1, EvWorld.x - o.x1)
           dragLen == Hypot10(EvWorld.x - o.x1, EvWorld.y - o.y1)
           dir == Atan2(o.y2 - o.y1, o.x2 - o.x1)
       IN IF ev.ctrl /\ o.kind \in {"line", "arrow"} /\ dragLen # 0
            THEN /\ dir \in SnapSet
                 /\ \A s \in SnapSet : AngDist(dragDir - dir) <= AngDist(dragDir - s)
                 /\ Abs(Hypot10(o.x2 - o.x1, o.y2 - o.y1) - dragLen) <= 10
            ELSE Pt(o.x2, o.y2) = EvWorld
\* an arrow dragged from (100,100) to (200,197), at 44 degrees, with the snap
\* modifier: its endpoint is on the diagonal
C28_Witness ==
  /\ ShapeMoved /\ ev.ctrl /\ DrawnObj.kind = "arrow"
  /\ DrawnObj.x1 = 100 /\ DrawnObj.y1 = 100 /\ EvWorld = Pt(200, 197)
  /\ DrawnObj.x2 - 100 = DrawnObj.y2 - 100 /\ DrawnObj.x2 > 190

\* the distance from p to the segment p1-p2 is at most tol2 / 2, in exact
\* integer arithmetic: the nearest point is an end of the segment, or the
\* foot of p on it
SegNear(p, p1, p2, tol2) ==
  LET dx == p2.x - p1.x
      dy == p2.y - p1.y
      len2 == dx * dx + dy * dy
      dot == (p.x - p1.x) * dx + (p.y - p1.y) * dy
      cross == (p.x - p1.x) * dy - (p.y - p1.y) * dx
      d1 == (p.x - p1.x) * (p.x - p1.x) + (p.y - p1.y) * (p.y - p1.y)
      d2 == (p.x - p2.x) * (p.x - p2.x) + (p.y - p2.y) * (p.y - p2.y)
  IN IF dot <= 0 THEN 4 * d1 <= tol2 * tol2
     ELSE IF dot >= len2 THEN 4 * d2 <= tol2 * tol2
     ELSE 4 * cross * cross <= tol2 * tol2 * len2
\* p is within tol = max(8, 1.5 * width) of the segment of a line or an
\* arrow, or of a segment of a stroke or an erase path
ObjNear(obj, p) ==
  LET tol2 == Max2(16, 3 * obj.size)
  IN IF obj.kind \in PointKinds
       THEN \E i \in 2..Len(obj.points) : SegNear(p, obj.points[i - 1], obj.points[i], tol2)
       ELSE SegNear(p, Pt(obj.x1, obj.y1), Pt(obj.x2, obj.y2), tol2)
SegKinds == {"line", "arrow", "stroke", "erase"}

\* C29: with tol = max(8, 1.5 * width), a line, an arrow, a stroke or an
\* erase path is hit by a world point exactly when the distance from the
\* point to its segment (to one of its segments) is at most tol: a point at
\* the distance tol is hit, a point farther away is not.
C29_HitTolerance ==
  [][ (PicksObject /\ Len(objects) = 1 /\ objects[1].kind \in SegKinds)
      => (selectionIndex' = 0 <=> ObjNear(objects[1], PickWorld))
         /\ (selectionIndex' = -1 <=> ~ObjNear(objects[1], PickWorld)) ]_vars
\* (74,92) is 8 units from the line (40,60)-(70,100) of width 5, and was hit
C29_Witness ==
  /\ ev.op = "pointerdown" /\ ev.sx = 65 /\ ev.sy = 80
  /\ objects = << Oblique >> /\ selectionIndex = 0 /\ gesture.mode = "selMove"

\* the objects (1-based positions) under the world point of the pointer-down
\* at hand
HitSet == { i \in 1..Len(objects) : hitObject(objects[i], PickWorld.x, PickWorld.y) }

\* C30: the object picked at a world point is the one with the largest index
\* among the objects hit by the point (the most recently drawn object under
\* the point), and nothing (-1) is picked exactly when no object is hit.
C30_TopmostHit ==
  [][ PicksObject
      => /\ (selectionIndex' = -1 <=> HitSet = {})
         /\ (HitSet # {} => /\ selectionIndex' + 1 \in HitSet
                            /\ \A i \in HitSet : i <= selectionIndex' + 1) ]_vars
C30_Witness ==
  /\ ev.op = "pointerdown" /\ objects = << HLine, RectA, TextA >>
  /\ selectionIndex = 1 /\ gesture.mode = "selMove"
  /\ hitObject(HLine, ev.sx, ev.sy) /\ ~hitObject(TextA, ev.sx, ev.sy)

\* a stack after a step, against the stack before it: the same, or popped at
\* the end, or pushed at the end with the copy of the state before the step
\* (the oldest entry dropped at the limit); every entry that stays holds
\* what it held
StackKept(s, s2) ==
  \/ s2 = s
  \/ s # << >> /\ s2 = Front(s)
  \/ /\ s2 # << >> /\ Last(s2) = JSONstringify(snapshot)
     /\ Front(s2) = (IF Len(s) = UndoLimit THEN Tail1(s) ELSE s)

\* C31: stored snapshots are isolated from the live state and from each
\* other. Every step leaves each entry that stays on the undo or redo stack
\* with the content it had (the stacks change only by a push or a pop at the
\* end, by the drop of the oldest undo entry, or by the clearing of the redo
\* stack); a step that neither calls pushUndo nor is an undo or redo (a
\* pointer-move, a pointer-up, a tool change) changes no entry at all,
\* whatever it does to the live objects, background or camera, also when
\* the live state was restored from an entry.
C31_SnapshotsIsolated ==
  [][ /\ StackKept(undo, undo')
      /\ (StackKept(redo, redo') \/ redo' = << >>)
      /\ (~ev'.pushed /\ ev'.op \notin {"undo", "redo"} => UNCHANGED << undo, redo >>) ]_vars
C31_Witness ==
  /\ ev.op = "pointermove" /\ gesture.active /\ gesture.mode = "selMove"
  /\ Len(undo) = 2 /\ hist.stage = "acted"
  /\ JSONparse(undo[2]).objects = hist.pre /\ objects # hist.pre

\* C32: when the selected object is deleted while a selMove, selScale or
\* selRotate gesture on it is in progress, the later pointer-moves of that
\* drag leave the object list as it is: the deleted object is not put back
\* and no other object is overwritten with the start snapshot of the gesture.
C32_DeleteEndsDrag ==
  [][ ( /\ ev'.op = "pointermove" /\ gesture.active /\ gesture.mode \in SelModes
        /\ hist.act = "delete" /\ hist.stage = "acted" )
      => objects' = objects ]_vars

\* C33: in every state with an overlay document attached, the reveal cursor
\* satisfies -1 <= step <= total - 1, total is the number of revealable
\* nodes, and node i is visible exactly when i <= step, after any sequence
\* of reveal steps, reset / show-all, undo and redo.
C33_RevealCursor ==
  svgLayer # ""
  => /\ -1 <= svg.step /\ svg.step <= svg.total - 1
     /\ svg.total = Len(svgNodes)
     /\ \A i \in 1..Len(svgNodes) : svgNodes[i] <=> (i - 1 <= svg.step)

\* ---- a drag (draw, selection, background or pan gesture) with a
\* ---- document-replacing action in the middle of it: the replacing actions
\* ---- are taken while the gesture is active, with one operation more than
\* ---- the budget of the gestures (the gesture that is interrupted may have
\* ---- used that budget up)
MidDrag(A) == gesture.active /\ A /\ ops <= MaxOps /\ ops' = ops + 1 /\ Track
MidClear == MidDrag(clearBtn)
MidNewBoard == MidDrag(newBoardBtn)
MidLoadBoard == \E name \in BoardNames : MidDrag(loadBoardBtn(name))
MidBgClear == MidDrag(clearBgBtn)
MidBgLoad == \E img \in Images : MidDrag(bgLoaded(img))
MidSvgLoad == \E text \in SvgTexts : MidDrag(svgLoaded(text))

InitReplace == InitBgTool
NextReplace ==
  \/ SelDown \/ SelMove \/ PointerUp \/ BgKey \/ Space
  \/ MidClear \/ MidNewBoard \/ MidLoadBoard \/ MidBgClear \/ MidBgLoad \/ MidSvgLoad

SpecReplace == InitReplace /\ [][NextReplace]_vars

ReplaceOps == {"clear", "newboard", "loadboard", "bgclear", "bgload", "svgload"}

\* C34: every document-replacing action that fires while a drag is in
\* progress (clear, new board, board load, clear background, the end of a
\* background-image load, the end of an overlay file read) ends the active
\* gesture, and the pointer-moves that follow, up to the next pointer-down,
\* change nothing of the document, the camera, the selection or the stacks.
C34_ReplaceEndsGesture ==
  /\ [][ (ev'.op \in ReplaceOps /\ gesture.active) => gesture' = ResetGesture ]_vars
  /\ [][ (ev'.op = "pointermove" /\ ~gesture.active)
         => UNCHANGED << tool, color, size, zoom, panX, panY, title, svg, bg, objects,
                         undo, redo, selectionIndex, uiHandles, gesture, svgNodes,
                         svgLayer, bgImgSrc, boards >> ]_vars
C34_Witness ==
  /\ ev.op = "pointermove" /\ ~gesture.active
  /\ hist.act = "bgload" /\ hist.stage = "acted" /\ hist.preBg # bg
  /\ Len(undo) >= 2 /\ objects # << >>

\* C35: during a drawStroke or drawErase gesture the point list of the new
\* object is append-only: a pointer-move appends exactly one world point, the
\* point of the pointer, at the end and leaves the earlier points, the other
\* fields of the object, the number of objects and every other object as
\* they were; the first point stays the point of the pointer-down, so after
\* k pointer-moves the list has k + 1 points.
C35_AppendOnly ==
  /\ [][ ( /\ ev'.op = "pointermove" /\ gesture.active
           /\ gesture.mode \in {"drawStroke", "drawErase"} /\ gesture.activeObj >= 0 )
         => LET i == gesture.activeObj + 1
                w == screenToWorld(ev'.sx, ev'.sy, zoom, panX, panY)
            IN /\ Len(objects') = Len(objects)
               /\ \A j \in 1..Len(objects) : j # i => objects'[j] = objects[j]
               /\ Len(objects'[i].points) = Len(objects[i].points) + 1
               /\ Front(objects'[i].points) = objects[i].points
               /\ Last(objects'[i].points) = w
               /\ objects'[i] = [objects[i] EXCEPT !.points = objects'[i].points] ]_vars
  /\ []( (gesture.active /\ gesture.mode \in {"drawStroke", "drawErase"})
          => /\ gesture.activeObj = Len(objects) - 1
             /\ objects[Len(objects)].points[1] = gesture.startWorld )
C35_Witness ==
  /\ ev.op = "pointermove" /\ gesture.active /\ gesture.mode = "drawStroke"
  /\ Len(objects) = 2 /\ objects[1] = StrokeA
  /\ objects[2].points = << Pt(100, 100), Pt(100, 100) >>

\* C36: a plain selection click (a pointer-down with the select tool, space
\* not held, and the pointer-up right after it, no pointer-move in between)
\* changes only the selection: the object list is unchanged, no undo entry
\* is pushed and the redo stack is not cleared, whether the click lands on
\* an object, on a handle or on empty space.
C36_ClickOnlySelects ==
  /\ [][ (ev'.op = "pointerdown" /\ tool = "select" /\ ~spacePanning)
         => UNCHANGED << objects, undo, redo >> ]_vars
  /\ [][ (ev.op = "pointerdown" /\ ev'.op = "pointerup" /\ tool = "select")
         => UNCHANGED << objects, undo, redo >> ]_vars

\* C37: in a background gesture every pointer-move writes the background
\* from the copy taken at the start of the gesture. bgScale and bgRotate
\* leave the stored position (the un-scaled top-left x, y) at its start
\* value, so the centre stays where it was; bgScale changes only the scale,
\* kept within [0.05, 10]; bgRotate changes only the rotation; bgMove changes
\* only the position, to the start position plus the world-space delta of
\* the pointer; and no background gesture changes any object.
C37_BgGestures ==
  [][ ( /\ ev'.op = "pointermove" /\ gesture.active /\ gesture.mode \in BgTools
        /\ gesture.bgStart # Null /\ gesture.startWorld # Null )
      => LET b0 == gesture.bgStart
             w == screenToWorld(ev'.sx, ev'.sy, zoom, panX, panY)
         IN /\ objects' = objects
            /\ gesture.mode = "bgMove"
                 => bg' = [b0 EXCEPT !.x = b0.x + (w.x - gesture.startWorld.x),
                                     !.y = b0.y + (w.y - gesture.startWorld.y)]
            /\ gesture.mode = "bgScale"
                 => /\ bg' = [b0 EXCEPT !.scale = bg'.scale]
                    /\ bg'.x = b0.x /\ bg'.y = b0.y
                    /\ 5 * (FX \div 100) <= bg'.scale /\ bg'.scale <= 10 * FX
            /\ gesture.mode = "bgRotate"
                 => /\ bg' = [b0 EXCEPT !.rot = bg'.rot]
                    /\ bg'.x = b0.x /\ bg'.y = b0.y ]_vars
C37_Witness ==
  /\ ev.op = "pointermove" /\ gesture.active /\ gesture.mode = "bgScale"
  /\ gesture.bgStart # Null /\ bg.scale # gesture.bgStart.scale
  /\ bg.x = gesture.bgStart.x /\ bg.y = gesture.bgStart.y /\ objects # << >>

\* C38: during a pan gesture the camera pan is the pan at the start of the
\* gesture plus the pointer's screen position minus its screen position at
\* the start, whatever the zoom is: the pointer-down changes no pan and
\* records its position as start and last position, and every pointer-move
\* keeps pan - (last position - start position) as it was while the last
\* position becomes the pointer's. Zoom, objects, background, selection and
\* the undo and redo stacks are unchanged by the gesture.
C38_PanDelta ==
  /\ [][ (ev'.op = "pointerdown" /\ spacePanning)
         => /\ gesture'.startScreen = [sx |-> ev'.sx, sy |-> ev'.sy]
            /\ gesture'.lastScreen = gesture'.startScreen
            /\ UNCHANGED << panX, panY, zoom, objects, bg, selectionIndex, undo, redo >> ]_vars
  /\ [][ (ev'.op = "pointermove" /\ gesture.active /\ gesture.mode = "pan")
         => /\ gesture'.startScreen = gesture.startScreen
            /\ gesture'.lastScreen = [sx |-> ev'.sx, sy |-> ev'.sy]
            /\ panX' - (ev'.sx - gesture.startScreen.sx)
                 = panX - (gesture.lastScreen.sx - gesture.startScreen.sx)
            /\ panY' - (ev'.sy - gesture.startScreen.sy)
                 = panY - (gesture.lastScreen.sy - gesture.startScreen.sy)
            /\ UNCHANGED << zoom, objects, bg, selectionIndex, undo, redo >> ]_vars
C38_Witness ==
  /\ ev.op = "pointermove" /\ gesture.active /\ gesture.mode = "pan"
  /\ zoom = 1100 /\ gesture.startScreen = [sx |-> 40, sy |-> 60]
  /\ gesture.lastScreen = [sx |-> 100, sy |-> 100]
  /\ objects # << >> /\ bg.src # "" /\ selectionIndex = 0 /\ undo # << >>

\* ---- rotate gestures on one selected object of each kind
CircleA == [RectA EXCEPT !.kind = "circle"]
ArrowA == [LineA EXCEPT !.kind = "arrow"]
RotDocs == { << RectA >>, << RectTurned >>, << CircleA >>, << TextA >>, << LineA >>,
             << ArrowA >>, << PenA >>, << EraseA >> }
\* the rotate knobs of these objects on the default camera
RotKnobs == { << 70, 34 >>, << 66, 87 >>, << 52, 39 >>, << 70, 29 >> }
RotPts == { << 40, 60 >>, << 100, 100 >>, << 70, 34 >>, << 130, 80 >> }
InitRotate == \E objs \in RotDocs : Populated(objs)
RotDown == \E p \in RotKnobs : onPointerDown(1, p[1], p[2], "Hi") /\ Budget
RotMove == \E p \in RotPts, shift \in BOOLEAN :
              onPointerMove(1, p[1], p[2], shift, FALSE) /\ Budget
NextRotate == RotDown \/ RotMove \/ PointerUp \/ Undo

SpecRotate == InitRotate /\ [][NextRotate]_vars

\* d is the angle a selRotate pointer-move at the world point w applies: the
\* angle of w about the anchor minus the start angle, or with Shift a whole
\* multiple of 15 degrees nearest to it
RotApplied(d, w, shift) ==
  LET raw == Atan2(w.y - gesture.selAnchor.y, w.x - gesture.selAnchor.x)
               - gesture.selStartAngle
  IN IF shift THEN d % 15 = 0 /\ 2 * Abs(d - raw) <= 15 ELSE d = raw
\* obj1 is obj0 with its stored coordinates turned by d about the centre of
\* its bounds and nothing else changed
PointsTurned(obj0, obj1, d) ==
  LET c == BoundsCenter(obj0) IN
    IF obj0.kind \in PointKinds
      THEN /\ Len(obj1.points) = Len(obj0.points)
           /\ \A i \in 1..Len(obj0.points) :
                 obj1.points[i] = rotatePoint(obj0.points[i].x, obj0.points[i].y, c.x, c.y, d)
           /\ obj1 = [obj0 EXCEPT !.points = obj1.points]
      ELSE /\ Pt(obj1.x1, obj1.y1) = rotatePoint(obj0.x1, obj0.y1, c.x, c.y, d)
           /\ Pt(obj1.x2, obj1.y2) = rotatePoint(obj0.x2, obj0.y2, c.x, c.y, d)
           /\ obj1 = [obj0 EXCEPT !.x1 = obj1.x1, !.y1 = obj1.y1,
                                   !.x2 = obj1.x2, !.y2 = obj1.y2]

\* C39: rotation respects the split of the kinds. A selRotate pointer-move
\* writes the start snapshot of the object turned by the applied angle: for
\* a rect, circle or text only the stored angle changes (old angle plus the
\* applied angle) and the corner / anchor coordinates stay; for a stroke,
\* erase path, line or arrow only the point coordinates change (turned about
\* the centre of the bounds) and no angle field is added or changed. With
\* Shift the applied angle is a whole multiple of 15 degrees.
C39_RotateSplit ==
  [][ ( /\ ev'.op = "pointermove" /\ gesture.active /\ gesture.mode = "selRotate"
        /\ gesture.selIndex >= 0 /\ gesture.selIndex < Len(objects)
        /\ gesture.selStartObj # Null )
      => LET obj0 == gesture.selStartObj
             obj1 == objects'[gesture.selIndex + 1]
             w == screenToWorld(ev'.sx, ev'.sy, zoom, panX, panY)
         IN /\ DOMAIN obj1 = DOMAIN obj0
            /\ IF obj0.kind \in {"rect", "circle", "text"}
                 THEN /\ obj1 = [obj0 EXCEPT !.rot = obj1.rot]
                      /\ RotApplied(obj1.rot - obj0.rot, w, ev'.shift)
                 ELSE \E d \in -720..720 :
                        RotApplied(d, w, ev'.shift) /\ PointsTurned(obj0, obj1, d) ]_vars
C39_Witness ==
  /\ ev.op = "pointermove" /\ ev.shift /\ gesture.active /\ gesture.mode = "selRotate"
  /\ objects[1].kind = "arrow" /\ objects[1] # ArrowA /\ objects[1].rot = 0
  /\ Pt(objects[1].x1, objects[1].y1) # Pt(ArrowA.x1, ArrowA.y1)

\* ---- export of the documents of SpecExport, with and without a background
\* ---- image and an overlay: each is loaded at most once and is not counted
\* ---- in the budget
ExportBgLoad == /\ bg.src = ""
                /\ \E img \in Images : bgLoaded(img) /\ UNCHANGED ops /\ Track
ExportSvgLoad == svgLayer = "" /\ svgLoaded("svgA") /\ UNCHANGED ops /\ Track
NextExportAll == Export \/ ExportBgLoad \/ ExportSvgLoad

SpecExportAll == InitExport /\ [][NextExportAll]_vars

\* C40: in the exported document the number of mask definitions equals the
\* number of erase objects of at least two points, and the mask groups are
\* those of exactly these objects; an erase object of fewer than two points
\* makes no mask and no group (it neither splits nor wraps the markup before
\* it); exactly the non-erase objects other than strokes of fewer than two
\* points have markup; and the background image and the overlay, when
\* loaded, are in the document but inside no mask group.
C40_ExportMasks ==
  ev.op = "export" =>
    LET masking == { j \in 0..(Len(objects) - 1) : Masking(objects, j) }
        groups == MaskGroups(exported.body)
    IN /\ Len(exported.defs) = Cardinality(masking)
       /\ { exported.defs[k].id : k \in 1..Len(exported.defs) } = 1..Cardinality(masking)
       /\ Cardinality(groups) = Cardinality(masking)
       /\ { g.of : g \in groups } = masking
       /\ { g.mask : g \in groups } = 1..Cardinality(masking)
       /\ MarkupOf(exported.inkMarkup)
            = { i \in 0..(Len(objects) - 1) : HasMarkup(objects[i + 1]) }
       /\ (-1 \in MarkupOf(exported.body)) <=> bg.src # ""
       /\ (-2 \in MarkupOf(exported.body)) <=> (svg.src # "" /\ svgLayer # "")
       /\ \A g \in groups : MarkupOf(g.children) \cap {-1, -2} = {}
C40_Witness ==
  /\ ev.op = "export" /\ objects = << PenA, EraseDot, EraseA >>
  /\ bg.src # "" /\ svgLayer # ""
  /\ Len(exported.defs) = 1 /\ exported.bgMarkup /\ exported.svgMarkup
  /\ Len(exported.body) = 3 /\ exported.body[3].tag = "g"

====
